---- MODULE Spec2Model ----
(***************************************************************************)
(* SubTracker reconciliation engine.                                       *)
(*                                                                         *)
(*   - the Subscription store and processSubscriptionData                  *)
(*     (Backend/services/subscriptionService.js)                           *)
(*   - the email pass, processUserEmails / POST /process-emails            *)
(*     (Backend/services/emailScheduler.js, Backend/Routes/Subscriptions)  *)
(*   - the ProcessedEmail ledger (Backend/models/ProcessedEmail.js)        *)
(*   - the shared oauth2Client (Backend/config/oAuth.js)                   *)
(*                                                                         *)
(* Dates are small naturals, 0 is null.  Strings that are matched by       *)
(* content (service names) are sequences of one-character strings.         *)
(***************************************************************************)
EXTENDS Integers, Sequences, FiniteSets, TLC

\* ------------------------------------------------------------------ bounds
MaxDate == 3
MaxCalls == 3
MaxBatch == 3
MaxPasses == 2

\* --------------------------------------------------------------- constants
Users == {"u1", "u2"}
Runners == {"r1", "r2"}
NoDate == 0
NoSub == 0
NoUser == "none"
Undefined == -1
Dates == 1..MaxDate
EventTypes == {"start", "renewal", "cancellation", "change"}

\* service names: "Nf", "nf p", "f"
NameNf == <<"N", "f">>
NameNfP == <<"n", "f", " ", "p">>
NameF == <<"f">>

VARIABLES
  subs,      \* Subscription collection: sequence of documents, index = _id
  now,       \* wall clock (new Date()), later than every evidence date
  calls,     \* number of direct processSubscriptionData calls made
  lastCall,  \* the most recent processSubscriptionData invocation
  ledger,    \* ProcessedEmail collection: set of [userId, emailId, status, subscriptionId]
  creds,     \* credentials currently set on the shared oauth2Client
  passes,    \* number of passes started
  overlap,   \* pairs of passes that were in progress at the same time
  applied,   \* log: [userId, emailId, pass] of every evidence written to subs by a pass
  run,       \* per runner: the local state of one pass
  pots,      \* PotentialSubscription collection: sequence of documents, index = _id
  bank,      \* the most recent bank-sync loop iteration or confirmation
  match,     \* the most recent matchTransactionWithEmails call
  rd,        \* the read in progress: getUserSubscriptions, stats, renewal alerts
  sy,        \* per concurrent bank sync: the analysis between its read and its write
  ft         \* the email pass with its fetch retry loop: position, counters, batch

vars == <<subs, now, calls, lastCall, ledger, creds, passes, overlap, applied, run,
          pots, bank, match, rd, sy, ft>>

\* the state of bank sync, email matching and reads
bankVars == <<pots, bank, match, rd, sy, ft>>

\* the state of the email pass
mailVars == <<calls, lastCall, ledger, creds, passes, overlap, applied, run>>

\* ------------------------------------------------------------ string model
\* toLowerCase / the 'i' flag of the RegExp
LowerChar(c) == IF c = "N" THEN "n" ELSE IF c = "P" THEN "p" ELSE IF c = "F" THEN "f" ELSE c

Lower(s) == [i \in 1..Len(s) |-> LowerChar(s[i])]

RECURSIVE TrimLeft(_)
TrimLeft(s) == IF s # <<>> /\ Head(s) = " " THEN TrimLeft(Tail(s)) ELSE s

RECURSIVE TrimRight(_)
TrimRight(s) == IF s # <<>> /\ s[Len(s)] = " " THEN TrimRight(SubSeq(s, 1, Len(s) - 1)) ELSE s

\* String.prototype.trim
Trim(s) == TrimRight(TrimLeft(s))

RECURSIVE TakeWord(_)
TakeWord(s) == IF s = <<>> \/ Head(s) = " " THEN <<>> ELSE <<Head(s)>> \o TakeWord(Tail(s))

\* companyName.trim().split(/\s+/)[0]
BaseName(companyName) == TakeWord(Trim(companyName))

\* new RegExp(escapedBase, 'i').test(hay): literal, case-insensitive, anywhere
RegexMatchCI(hay, needle) ==
  \E i \in 1..(Len(hay) - Len(needle) + 1) :
    Lower(SubSeq(hay, i, i + Len(needle) - 1)) = Lower(needle)

\* ------------------------------------------------------ subscriptionService
FindExistingCaseSensitive(store, userId, companyName) ==
  LET base == BaseName(companyName)
      hits == {i \in 1..Len(store) :
                 /\ store[i].userId = userId
                 /\ \E k \in 1..(Len(store[i].companyName) - Len(base) + 1) :
                      SubSeq(store[i].companyName, k, k + Len(base) - 1) = base}
  IN IF hits = {} THEN NoSub
     ELSE CHOOSE i \in hits : \A j \in hits : store[j].updatedAt <= store[i].updatedAt

\* a lookup that leaves the userId out of the query
FindExistingAnyUser(store, userId, companyName) ==
  LET base == BaseName(companyName)
      hits == {i \in 1..Len(store) : RegexMatchCI(store[i].companyName, base)}
  IN IF hits = {} THEN NoSub
     ELSE CHOOSE i \in hits : \A j \in hits : store[j].updatedAt <= store[i].updatedAt

\* findExistingSubscription: most recently updated document of the user whose
\* companyName contains the base brand token, or null
FindExistingSubscription(store, userId, companyName) ==
  LET base == BaseName(companyName)
      hits == {i \in 1..Len(store) :
                 /\ store[i].userId = userId
                 /\ RegexMatchCI(store[i].companyName, base)}
  IN IF hits = {} THEN NoSub
     ELSE CHOOSE i \in hits : \A j \in hits : store[j].updatedAt <= store[i].updatedAt

\* createSubscription: Subscription.create(...), schema trims companyName
CreateSubscription(store, data, t) ==
  Append(store,
    [userId |-> data.userId,
     companyName |-> Trim(data.companyName),
     price |-> data.price,
     currency |-> data.currency,
     startDate |-> data.startDate,
     nextRenewalDate |-> data.nextRenewalDate,
     cancellationDate |-> data.cancellationDate,
     accessEndDate |-> data.accessEndDate,
     status |-> IF data.status # "" THEN data.status ELSE "active",
     planName |-> data.planName,
     sourceEmailId |-> data.sourceEmailId,
     sourceEmailDate |-> data.sourceEmailDate,
     frequency |-> "monthly",
     updatedAt |-> t])

\* updateSubscription: $set of the six fields, status only when truthy,
\* cancellationDate / accessEndDate only when not undefined
UpdateSubscription(store, id, u, t) ==
  [store EXCEPT ![id] =
    [@ EXCEPT !.price = u.price,
              !.currency = u.currency,
              !.nextRenewalDate = u.nextRenewalDate,
              !.planName = u.planName,
              !.sourceEmailId = u.sourceEmailId,
              !.sourceEmailDate = u.sourceEmailDate,
              !.status = IF u.status # "" THEN u.status ELSE @,
              !.cancellationDate = IF u.cancellationDate # Undefined THEN u.cancellationDate ELSE @,
              !.accessEndDate = IF u.accessEndDate # Undefined THEN u.accessEndDate ELSE @,
              !.updatedAt = t]]

\* cancelSubscription
CancelSubscription(store, id, c, t) ==
  [store EXCEPT ![id] =
    [@ EXCEPT !.status = "cancelled",
              !.cancellationDate = c.cancellationDate,
              !.accessEndDate = c.accessEndDate,
              !.sourceEmailId = c.sourceEmailId,
              !.sourceEmailDate = c.sourceEmailDate,
              !.updatedAt = t]]

\* x || y on numbers and nullable strings (0 and "" are falsy)
OrElse(x, y) == IF x # 0 THEN x ELSE y

OrElseStr(x, y) == IF x # "" THEN x ELSE y

\* emailInfo.date ? new Date(emailInfo.date) : new Date()
EmailDate(info, t) == IF info.date # NoDate THEN info.date ELSE t

IsStaleNever(existing, emailDate, eventType) == FALSE

IsStaleSkipsChange(existing, emailDate, eventType) ==
  /\ existing.sourceEmailDate # NoDate
  /\ emailDate # NoDate
  /\ eventType \notin {"cancellation", "change"}
  /\ emailDate < existing.sourceEmailDate

\* the staleness guard of processSubscriptionData
IsStale(existing, emailDate, eventType) ==
  /\ existing.sourceEmailDate # NoDate
  /\ emailDate # NoDate
  /\ eventType # "cancellation"
  /\ emailDate < existing.sourceEmailDate

StartUpdateNoReactivate(existing, ev, info, t) ==
  [price |-> OrElse(ev.amount, existing.price),
   currency |-> OrElseStr(ev.currency, existing.currency),
   nextRenewalDate |-> ev.nextBillingDate,
   planName |-> ev.planName,
   sourceEmailId |-> info.id,
   sourceEmailDate |-> EmailDate(info, t),
   status |-> "",
   cancellationDate |-> Undefined,
   accessEndDate |-> Undefined]

\* case 'start', existing subscription: startUpdate
StartUpdate(existing, ev, info, t) ==
  [price |-> OrElse(ev.amount, existing.price),
   currency |-> OrElseStr(ev.currency, existing.currency),
   nextRenewalDate |-> ev.nextBillingDate,
   planName |-> ev.planName,
   sourceEmailId |-> info.id,
   sourceEmailDate |-> EmailDate(info, t),
   status |-> IF existing.status = "cancelled" THEN "active" ELSE "",
   cancellationDate |-> IF existing.status = "cancelled" THEN NoDate ELSE Undefined,
   accessEndDate |-> IF existing.status = "cancelled" THEN NoDate ELSE Undefined]

\* case 'renewal', existing subscription: renewalUpdate
RenewalUpdate(existing, ev, info, t) ==
  [price |-> OrElse(ev.amount, existing.price),
   currency |-> OrElseStr(ev.currency, existing.currency),
   nextRenewalDate |-> ev.nextBillingDate,
   planName |-> OrElse(ev.planName, existing.planName),
   sourceEmailId |-> info.id,
   sourceEmailDate |-> EmailDate(info, t),
   status |-> IF existing.status = "cancelled" THEN "active" ELSE "",
   cancellationDate |-> IF existing.status = "cancelled" THEN NoDate ELSE Undefined,
   accessEndDate |-> IF existing.status = "cancelled" THEN NoDate ELSE Undefined]

\* a change handled the way a renewal is, reactivating a cancelled subscription
ChangeUpdateAsRenewal(existing, ev, info, t) == RenewalUpdate(existing, ev, info, t)

\* case 'change', existing subscription
ChangeUpdate(existing, ev, info, t) ==
  [price |-> OrElse(ev.amount, existing.price),
   currency |-> OrElseStr(ev.currency, existing.currency),
   nextRenewalDate |-> ev.nextBillingDate,
   planName |-> OrElse(ev.planName, existing.planName),
   sourceEmailId |-> info.id,
   sourceEmailDate |-> EmailDate(info, t),
   status |-> "",
   cancellationDate |-> Undefined,
   accessEndDate |-> Undefined]

\* case 'cancellation', existing subscription: the cancellation is older than
\* the latest event
CancellationIsOld(existing, parsedCancellationDate) ==
  /\ existing.sourceEmailDate # NoDate
  /\ parsedCancellationDate # NoDate
  /\ parsedCancellationDate < existing.sourceEmailDate

\* an argument of createSubscription that leaves the status to the schema
\* default
NewSubscriptionDataDefaultStatus(userId, ev, info, t) ==
  [userId |-> userId,
   companyName |-> ev.serviceName,
   price |-> OrElse(ev.amount, 0),
   currency |-> OrElseStr(ev.currency, "USD"),
   startDate |-> IF ev.startDate # NoDate THEN ev.startDate ELSE EmailDate(info, t),
   nextRenewalDate |-> IF ev.eventType = "cancellation" THEN NoDate ELSE ev.nextBillingDate,
   cancellationDate |-> IF ev.eventType = "cancellation" THEN OrElse(ev.cancellationDate, t) ELSE NoDate,
   accessEndDate |-> IF ev.eventType = "cancellation" THEN OrElse(ev.cancellationDate, t) ELSE NoDate,
   status |-> "",
   planName |-> ev.planName,
   sourceEmailId |-> info.id,
   sourceEmailDate |-> EmailDate(info, t)]

\* the argument of createSubscription in each branch without an existing
\* subscription
NewSubscriptionData(userId, ev, info, t) ==
  [userId |-> userId,
   companyName |-> ev.serviceName,
   price |-> OrElse(ev.amount, 0),
   currency |-> OrElseStr(ev.currency, "USD"),
   startDate |-> IF ev.startDate # NoDate THEN ev.startDate ELSE EmailDate(info, t),
   nextRenewalDate |-> IF ev.eventType = "cancellation" THEN NoDate ELSE ev.nextBillingDate,
   cancellationDate |-> IF ev.eventType = "cancellation" THEN OrElse(ev.cancellationDate, t) ELSE NoDate,
   accessEndDate |-> IF ev.eventType = "cancellation" THEN OrElse(ev.cancellationDate, t) ELSE NoDate,
   status |-> IF ev.eventType = "cancellation" THEN "cancelled" ELSE "active",
   planName |-> ev.planName,
   sourceEmailId |-> info.id,
   sourceEmailDate |-> EmailDate(info, t)]

\* processSubscriptionData(userId, extractedData, emailInfo) run at time t on
\* the collection `store`: the collection afterwards, the _id of the returned
\* document and what was done
ProcessSubscriptionData(store, userId, ev, info, t) ==
  LET sid == FindExistingSubscription(store, userId, ev.serviceName)
      existing == store[sid]
  IN IF sid = NoSub
     THEN [subs |-> CreateSubscription(store, NewSubscriptionData(userId, ev, info, t), t),
           sid |-> Len(store) + 1, existing |-> NoSub, outcome |-> "created"]
     ELSE IF IsStale(existing, EmailDate(info, t), ev.eventType)
     THEN [subs |-> store, sid |-> sid, existing |-> sid, outcome |-> "discarded"]
     ELSE IF ev.eventType = "start"
     THEN [subs |-> UpdateSubscription(store, sid, StartUpdate(existing, ev, info, t), t),
           sid |-> sid, existing |-> sid, outcome |-> "updated"]
     ELSE IF ev.eventType = "renewal"
     THEN [subs |-> UpdateSubscription(store, sid, RenewalUpdate(existing, ev, info, t), t),
           sid |-> sid, existing |-> sid, outcome |-> "updated"]
     ELSE IF ev.eventType = "cancellation"
     THEN IF CancellationIsOld(existing, ev.cancellationDate)
          THEN [subs |-> store, sid |-> sid, existing |-> sid, outcome |-> "discarded"]
          ELSE [subs |-> CancelSubscription(store, sid,
                           [cancellationDate |-> OrElse(ev.cancellationDate, t),
                            accessEndDate |-> OrElse(ev.cancellationDate, t),
                            sourceEmailId |-> info.id,
                            sourceEmailDate |-> EmailDate(info, t)], t),
                sid |-> sid, existing |-> sid, outcome |-> "cancelled"]
     ELSE [subs |-> UpdateSubscription(store, sid, ChangeUpdate(existing, ev, info, t), t),
           sid |-> sid, existing |-> sid, outcome |-> "updated"]

\* ----------------------------------------------------------------- inputs
\* extracted data as the AI returns it; planName, currency and nextBillingDate
\* are present exactly when an amount is
Evidence(type, name, amount, cd) ==
  [eventType |-> type,
   serviceName |-> name,
   amount |-> amount,
   currency |-> IF amount = 0 THEN "" ELSE "CAD",
   startDate |-> NoDate,
   nextBillingDate |-> IF amount = 0 THEN NoDate ELSE MaxDate,
   cancellationDate |-> cd,
   planName |-> amount]

DirectNames == {NameNf, NameNfP}

\* the amounts the direct calls carry per event type (0: no amount extracted)
DirectAmounts(ty) ==
  CASE ty = "start" -> {0, 1}
    [] ty = "renewal" -> {0, 2}
    [] OTHER -> {2}

\* <<userId, extractedData, email date>> of the direct calls
DirectInputs ==
  {<<"u1", Evidence(x[1], nm, x[2], NoDate), d>> :
      x \in {y \in (EventTypes \ {"cancellation"}) \X (0..2) : y[2] \in DirectAmounts(y[1])},
      nm \in DirectNames, d \in Dates}
  \cup {<<"u1", Evidence("cancellation", NameNf, 0, cd), d>> : cd \in 0..MaxDate, d \in Dates}
  \cup {<<"u1", Evidence("start", NameF, 1, NoDate), 1>>}
  \cup {<<"u2", Evidence("start", NameNf, 1, NoDate), 1>>}

NoCall ==
  [n |-> 0, userId |-> NoUser, eventType |-> "", date |-> NoDate, cancellationDate |-> NoDate,
   amount |-> 0, name |-> <<>>, id |-> 0, sid |-> NoSub, existing |-> NoSub, outcome |-> "",
   wasStatus |-> "", wasDate |-> NoDate]

\* the log entry of one processSubscriptionData invocation
CallLog(store, userId, ev, info, res, prev) ==
  [n |-> prev.n + 1, userId |-> userId, eventType |-> ev.eventType, date |-> info.date,
   cancellationDate |-> ev.cancellationDate, amount |-> ev.amount, name |-> ev.serviceName,
   id |-> info.id, sid |-> res.sid, existing |-> res.existing, outcome |-> res.outcome,
   wasStatus |-> IF res.existing = NoSub THEN "" ELSE store[res.existing].status,
   wasDate |-> IF res.existing = NoSub THEN NoDate ELSE store[res.existing].sourceEmailDate]

NoRun ==
  [pc |-> "idle", user |-> NoUser, pass |-> 0, idx |-> 0, email |-> 0, seen |-> {},
   usedCreds |-> NoUser, last |-> "", totalEmails |-> 0,
   processed |-> 0, created |-> 0, updated |-> 0, cancelled |-> 0,
   skipped |-> 0, alreadyProcessed |-> 0]

\* no bank-sync iteration yet
NoBank ==
  [n |-> 0, sync |-> NoUser, kind |-> "", userId |-> NoUser, merchantName |-> <<>>, amount |-> 0,
   date |-> NoDate, transactionId |-> 0, known |-> FALSE, detected |-> FALSE,
   frequency |-> "unknown", occurrences |-> 0, matched |-> FALSE, lookupFailed |-> FALSE,
   confidence |-> "",
   reason |-> "", applied |-> FALSE, outcome |-> ""]

\* no matchTransactionWithEmails call yet
NoMatch ==
  [n |-> 0, merchantName |-> <<>>, amount |-> 0, date |-> NoDate, emails |-> <<>>,
   fetched |-> <<>>, matched |-> FALSE, emailId |-> 0]

\* the concurrent bank syncs of one user: manual, scheduled, webhook
Syncs == {"s1", "s2"}

\* no sync between its read and its write
NoSync == [pc |-> "idle", tx |-> 0, a |-> 0, k |-> 0]

NoSyncs == [s \in Syncs |-> NoSync]

\* no email pass started yet
NoPass ==
  [n |-> 0, pc |-> "idle", user |-> NoUser, retryCount |-> 0, attempts |-> 0, ensures |-> 0,
   refreshes |-> 0, errors |-> <<>>, batch |-> <<>>, idx |-> 0, seen |-> {}, result |-> "",
   last |-> "", fault |-> "", newest |-> NoDate, called |-> {}, totalEmails |-> 0,
   processed |-> 0, created |-> 0, updated |-> 0, cancelled |-> 0, skipped |-> 0,
   alreadyProcessed |-> 0]

\* no read yet
NoRead ==
  [pc |-> "idle", path |-> "", user |-> NoUser, list |-> <<>>, idx |-> 0, renewal |-> NoDate,
   iterations |-> 0, orig |-> <<>>, iters |-> <<>>, view |-> <<>>]

Init ==
  /\ subs = <<>>
  /\ now = MaxDate + 1
  /\ calls = 0
  /\ lastCall = NoCall
  /\ ledger = {}
  /\ creds = NoUser
  /\ passes = 0
  /\ overlap = {}
  /\ applied = {}
  /\ run = [r \in Runners |-> NoRun]
  /\ pots = <<>>
  /\ bank = NoBank
  /\ match = NoMatch
  /\ rd = NoRead
  /\ sy = NoSyncs
  /\ ft = NoPass

\* ------------------------------------------------------------ direct calls
\* one call processSubscriptionData(userId, ev, {id, date}) by any caller
ApplyEvidence(userId, ev, date) ==
  /\ calls < MaxCalls
  /\ LET info == [id |-> calls + 1, date |-> date]
         res == ProcessSubscriptionData(subs, userId, ev, info, now)
     IN /\ subs' = res.subs
        /\ lastCall' = CallLog(subs, userId, ev, info, res, lastCall)
  /\ calls' = calls + 1
  /\ now' = now + 1
  /\ UNCHANGED <<ledger, creds, passes, overlap, applied, run>>
  /\ UNCHANGED bankVars

NextApply == \E inp \in DirectInputs : ApplyEvidence(inp[1], inp[2], inp[3])

SpecApply == Init /\ [][NextApply]_vars

\* --------------------------------------------------------------- email pass
\* the mailbox of each user as the email source serves it: the Date header
\* and what extractFromSingleEmail returns for the text
NoData == Evidence("", <<>>, 0, NoDate)

MailIds == {11, 12, 21}

Mail(id) ==
  CASE id = 11 -> [userId |-> "u1", date |-> 1, ev |-> Evidence("start", NameNf, 1, NoDate)]
    [] id = 12 -> [userId |-> "u1", date |-> 1, ev |-> Evidence("renewal", NameNfP, 2, NoDate)]
    [] id = 21 -> [userId |-> "u2", date |-> 2, ev |-> NoData]

MailOf(u) == {id \in MailIds : Mail(id).userId = u}

Active(q) == run[q].pc \in {"fetch", "loop"}

\* authenticateUser (every authenticated route):
\* oauth2Client.setCredentials(user.googleTokens)
Authenticate(u) ==
  /\ creds # u
  /\ creds' = u
  /\ UNCHANGED <<subs, now, calls, lastCall, ledger, passes, overlap, applied, run>>
  /\ UNCHANGED bankVars

\* processUserEmails / POST process-emails up to the messages.list request:
\* ensureValidToken sets the credentials of the shared client, the list
\* request is issued with them
StartPass(r, u) ==
  /\ run[r].pc \in {"idle", "done"}
  /\ passes < MaxPasses
  /\ passes' = passes + 1
  /\ creds' = u
  /\ overlap' = overlap \cup {{passes + 1, run[q].pass} : q \in {x \in Runners \ {r} : Active(x)}}
  /\ run' = [run EXCEPT ![r] = [NoRun EXCEPT !.pc = "fetch", !.user = u, !.pass = passes + 1]]
  /\ UNCHANGED <<subs, now, calls, lastCall, ledger, applied>>
  /\ UNCHANGED bankVars

\* the messages.get requests of fetchSubscriptionEmails, issued after the
\* list response with whatever credentials the shared client carries then
\* (a message of this user is not found under another user's credentials and
\* is dropped), then the read of the ProcessedEmail ids of the user.  The
\* response holds between 0 and MaxBatch emails of the user, in any order and
\* possibly repeated; its elements are drawn as the loop reaches them.
Fetch(r) ==
  /\ run[r].pc = "fetch"
  /\ \E empty \in BOOLEAN :
       LET none == empty \/ creds # run[r].user
       IN run' = [run EXCEPT ![r] =
                   [@ EXCEPT !.usedCreds = creds,
                             !.idx = 1,
                             !.seen = {l.emailId : l \in {x \in ledger : x.userId = run[r].user}},
                             !.pc = IF none THEN "done" ELSE "loop"]]
  /\ UNCHANGED <<subs, now, calls, lastCall, ledger, creds, passes, overlap, applied>>
  /\ UNCHANGED bankVars

\* one iteration of `for (const email of emails)`, with its try/catch.
\* aiOk: extractFromSingleEmail returns; dbOk: processSubscriptionData returns;
\* ledgerOk: the store accepts the ProcessedEmail.create of the try block.
\* A duplicate (userId, emailId) is always rejected by the unique index; the
\* create of the catch block is rejected by nothing else.
Item(r) ==
  /\ run[r].pc = "loop"
  /\ run[r].idx <= MaxBatch
  /\ \E id \in MailOf(run[r].user), aiOk, dbOk, ledgerOk \in BOOLEAN :
       LET me == run[r]
           u == me.user
           m == Mail(id)
           info == [id |-> id, date |-> m.date]
           dup == \E l \in ledger : l.userId = u /\ l.emailId = id
           valid == m.ev.eventType # "" /\ m.ev.serviceName # <<>>
           called == id \notin me.seen /\ aiOk /\ valid /\ dbOk
           res == ProcessSubscriptionData(subs, u, m.ev, info, now)
           kind == IF id \in me.seen THEN "already"
                   ELSE IF ~aiOk THEN "failed"
                   ELSE IF ~valid THEN (IF dup \/ ~ledgerOk THEN "failed" ELSE "skipped")
                   ELSE IF ~dbOk THEN "failed"
                   ELSE IF dup \/ ~ledgerOk THEN "failed"
                   ELSE "processed"
           entry == [userId |-> u, emailId |-> id, status |-> kind,
                     subscriptionId |-> IF kind = "processed" THEN res.sid ELSE NoSub]
           ty == m.ev.eventType
       IN /\ subs' = IF called THEN res.subs ELSE subs
          /\ lastCall' = IF called THEN CallLog(subs, u, m.ev, info, res, lastCall) ELSE lastCall
          /\ now' = IF called THEN now + 1 ELSE now
          /\ applied' = IF called /\ res.outcome # "discarded"
                        THEN applied \cup {[userId |-> u, emailId |-> id, pass |-> me.pass]}
                        ELSE applied
          /\ ledger' = IF kind \in {"processed", "skipped"} THEN ledger \cup {entry}
                       ELSE IF kind = "failed" /\ ~dup THEN ledger \cup {entry}
                       ELSE ledger
          /\ run' = [run EXCEPT ![r] =
               [@ EXCEPT !.idx = @ + 1,
                         !.email = id,
                         !.last = kind,
                         !.alreadyProcessed = IF kind = "already" THEN @ + 1 ELSE @,
                         !.skipped = IF kind \in {"skipped", "failed"} THEN @ + 1 ELSE @,
                         !.processed = IF kind = "processed" THEN @ + 1 ELSE @,
                         !.created = IF kind = "processed" /\ ty = "start" THEN @ + 1 ELSE @,
                         !.updated = IF kind = "processed" /\ ty \in {"renewal", "change"} THEN @ + 1 ELSE @,
                         !.cancelled = IF kind = "processed" /\ ty = "cancellation" THEN @ + 1 ELSE @]]
  /\ UNCHANGED <<calls, creds, passes, overlap>>
  /\ UNCHANGED bankVars

\* after the loop: the summary is returned
Finish(r) ==
  /\ run[r].pc = "loop"
  /\ run[r].idx > 1
  /\ run' = [run EXCEPT ![r].pc = "done", ![r].totalEmails = run[r].idx - 1]
  /\ UNCHANGED <<subs, now, calls, lastCall, ledger, creds, passes, overlap, applied>>
  /\ UNCHANGED bankVars

\* a pass that starts while no other pass is in progress
StartPassSerial(r, u) ==
  /\ \A q \in Runners \ {r} : ~Active(q)
  /\ StartPass(r, u)

Next ==
  \/ \E u \in Users : Authenticate(u)
  \/ \E r \in Runners, u \in Users : StartPass(r, u)
  \/ \E r \in Runners : Fetch(r)
  \/ \E r \in Runners : Item(r)
  \/ \E r \in Runners : Finish(r)

Spec == Init /\ [][Next]_vars

NextSerial ==
  \/ \E u \in Users : Authenticate(u)
  \/ \E r \in Runners, u \in Users : StartPassSerial(r, u)
  \/ \E r \in Runners : Fetch(r)
  \/ \E r \in Runners : Item(r)
  \/ \E r \in Runners : Finish(r)

SpecSerial == Init /\ [][NextSerial]_vars

\* ----------------------------------------------------------------- Date
\* In the bank-sync and read parts a Date is the number of its day, counted
\* from 1970-01-01 (day 0); all Dates of one behaviour carry the same time of
\* day.  Civil / DaysFromCivil convert between a day number and the
\* proleptic Gregorian year, month (1..12) and day of month that getFullYear,
\* getMonth and getDate read.
DaysFromCivil(y, m, d) ==
  LET yy == IF m <= 2 THEN y - 1 ELSE y
      era == yy \div 400
      yoe == yy - era * 400
      mp == IF m > 2 THEN m - 3 ELSE m + 9
      doy == (153 * mp + 2) \div 5 + d - 1
      doe == yoe * 365 + yoe \div 4 - yoe \div 100 + doy
  IN era * 146097 + doe - 719468

Civil(z) ==
  LET zz == z + 719468
      era == zz \div 146097
      doe == zz - era * 146097
      yoe == (doe - doe \div 1460 + doe \div 36524 - doe \div 146096) \div 365
      doy == doe - (365 * yoe + yoe \div 4 - yoe \div 100)
      mp == (5 * doy + 2) \div 153
      d == doy - (153 * mp + 2) \div 5 + 1
      m == IF mp < 10 THEN mp + 3 ELSE mp - 9
  IN [y |-> yoe + era * 400 + (IF m <= 2 THEN 1 ELSE 0), m |-> m, d |-> d]

\* the Date with the given year, zero-based month and day of month, where the
\* month may lie outside 0..11 and the day beyond the end of the month: both
\* carry over, as in setMonth and setFullYear
MakeDay(y, m0, d) == DaysFromCivil(y + (m0 \div 12), (m0 % 12) + 1, 1) + d - 1

\* date.setMonth(date.getMonth() + k)
SetMonth(t, k) == LET c == Civil(t) IN MakeDay(c.y, c.m - 1 + k, c.d)

\* date.setFullYear(date.getFullYear() + k)
SetFullYear(t, k) == LET c == Civil(t) IN MakeDay(c.y + k, c.m - 1, c.d)

\* date.setDate(date.getDate() + k)
SetDate(t, k) == t + k

\* ------------------------------------------------- getUserSubscriptions
BackfillCap == 120
RollCap == 24

\* the body of both loops: one period of the subscription's frequency
AddPeriodWeekly(renewal, frequency) == SetDate(renewal, 7)

AddPeriod(renewal, frequency) ==
  CASE frequency = "weekly" -> SetDate(renewal, 7)
    [] frequency = "yearly" -> SetFullYear(renewal, 1)
    [] OTHER -> SetMonth(renewal, 1)

\* the condition of both loops
KeepGoingUncapped(renewal, t, iterations, cap) == renewal < t

KeepGoingRollCap(renewal, t, iterations, cap) == renewal < t /\ iterations < RollCap

KeepGoingInclusiveCap(renewal, t, iterations, cap) == renewal < t /\ iterations <= cap

KeepGoing(renewal, t, iterations, cap) == renewal < t /\ iterations < cap

\* the read paths that go through getUserSubscriptions
IsProjected(path) == path \in {"list", "export"}

\* Subscription.find(query).sort({createdAt: -1}): the _ids, newest first
RECURSIVE Newest(_, _, _, _)
Newest(store, userId, status, i) ==
  IF i = 0 THEN <<>>
  ELSE (IF store[i].userId = userId /\ (status = "" \/ store[i].status = status)
        THEN <<i>> ELSE <<>>) \o Newest(store, userId, status, i - 1)

\* a read starts.  GET / and GET /export call getUserSubscriptions with the
\* optional status filter; GET /stats reads Subscription.find({userId}) and
\* computes on the documents as stored.
StartRead(u, path, status) ==
  /\ rd.pc \in {"idle", "done"}
  /\ LET ids == Newest(subs, u, status, Len(subs))
     IN rd' = [NoRead EXCEPT
                 !.pc = IF IsProjected(path) THEN "scan" ELSE "done",
                 !.path = path, !.user = u, !.list = ids, !.idx = 1,
                 !.orig = subs, !.iters = [i \in 1..Len(subs) |-> 0],
                 !.view = IF IsProjected(path) THEN <<>>
                          ELSE [k \in 1..Len(ids) |-> subs[ids[k]]]]
  /\ UNCHANGED <<subs, now, pots, bank, match, sy, ft>>
  /\ UNCHANGED mailVars

\* `for (const sub of subscriptions)`: the tests at the top of the body, and
\* the return after the last document
Scan ==
  /\ rd.pc = "scan"
  /\ IF rd.idx > Len(rd.list)
     THEN rd' = [rd EXCEPT !.pc = "done",
                           !.view = [k \in 1..Len(rd.list) |-> subs[rd.list[k]]]]
     ELSE LET sub == subs[rd.list[rd.idx]]
          IN IF sub.status # "active"
             THEN rd' = [rd EXCEPT !.idx = @ + 1]
             ELSE IF sub.nextRenewalDate = NoDate /\ sub.startDate # NoDate
             THEN rd' = [rd EXCEPT !.pc = "backfill", !.renewal = sub.startDate, !.iterations = 0]
             ELSE IF sub.nextRenewalDate # NoDate /\ sub.nextRenewalDate < now
             THEN rd' = [rd EXCEPT !.pc = "roll", !.renewal = sub.nextRenewalDate, !.iterations = 0]
             ELSE rd' = [rd EXCEPT !.idx = @ + 1]
  /\ UNCHANGED <<subs, now, pots, bank, match, sy, ft>>
  /\ UNCHANGED mailVars

\* one test of the loop condition, followed by one iteration or by the
\* assignment and sub.save() behind the loop
LoopStep(pc, cap) ==
  /\ rd.pc = pc
  /\ LET id == rd.list[rd.idx]
     IN IF KeepGoing(rd.renewal, now, rd.iterations, cap)
        THEN /\ rd' = [rd EXCEPT !.renewal = AddPeriod(@, subs[id].frequency),
                                 !.iterations = @ + 1,
                                 !.iters[id] = @ + 1]
             /\ subs' = subs
        ELSE /\ rd' = [rd EXCEPT !.pc = "scan", !.idx = @ + 1]
             /\ subs' = [subs EXCEPT ![id].nextRenewalDate = rd.renewal, ![id].updatedAt = now]
  /\ UNCHANGED <<now, pots, bank, match, sy, ft>>
  /\ UNCHANGED mailVars

\* the backfill loop from startDate
BackfillStep == LoopStep("backfill", BackfillCap)

\* the roll-forward loop of an overdue nextRenewalDate
RollStep == LoopStep("roll", RollCap)

\* the wall clock of the reads
NowDays ==
  {DaysFromCivil(2026, 11, 2), DaysFromCivil(2024, 2, 29), DaysFromCivil(2025, 3, 31),
   DaysFromCivil(2025, 1, 31), DaysFromCivil(2026, 4, 5)}

\* a stored Subscription document
StoredSub(userId, status, startDate, nextRenewalDate, frequency) ==
  [userId |-> userId, companyName |-> NameNf, price |-> 1, currency |-> "USD",
   startDate |-> startDate, nextRenewalDate |-> nextRenewalDate,
   cancellationDate |-> IF status = "cancelled" THEN startDate ELSE NoDate,
   accessEndDate |-> IF status = "cancelled" THEN startDate ELSE NoDate,
   status |-> status, planName |-> 0, sourceEmailId |-> 0, sourceEmailDate |-> startDate,
   frequency |-> frequency, updatedAt |-> startDate]

\* the documents a read may find for wall clock t
StoredSubs(t) ==
  {StoredSub("u1", st, sd, nr, fr) :
     st \in {"active", "cancelled"},
     sd \in {SetFullYear(t, -10), SetDate(t, -400), SetDate(t, -5)},
     nr \in {NoDate, SetDate(t, -800), SetDate(t, -95), SetDate(t, -1), SetDate(t, 3)},
     fr \in {"monthly", "yearly", "weekly", "unknown"}}

\* a second, older document of the collection
OlderSubs(t) ==
  {StoredSub("u1", "active", SetDate(t, -40), SetDate(t, -40), "weekly"),
   StoredSub("u2", "active", SetDate(t, -40), NoDate, "yearly")}

InitRead ==
  /\ now \in NowDays
  /\ subs \in {<<s>> : s \in StoredSubs(now)}
               \cup {<<o, s>> : o \in OlderSubs(now),
                                s \in {x \in StoredSubs(now) : x.frequency = "monthly"}}
  /\ calls = 0
  /\ lastCall = NoCall
  /\ ledger = {}
  /\ creds = NoUser
  /\ passes = 0
  /\ overlap = {}
  /\ applied = {}
  /\ run = [r \in Runners |-> NoRun]
  /\ pots = <<>>
  /\ bank = NoBank
  /\ match = NoMatch
  /\ rd = NoRead
  /\ sy = NoSyncs
  /\ ft = NoPass

NextRead ==
  \/ \E u \in Users, path \in {"list", "export", "stats"}, status \in {"", "active"} :
       (path = "list" \/ status = "") /\ StartRead(u, path, status)
  \/ Scan
  \/ BackfillStep
  \/ RollStep

SpecRead == InitRead /\ [][NextRead]_vars

\* every step of a read in progress is eventually taken
SpecReadFair == SpecRead /\ WF_vars(Scan \/ BackfillStep \/ RollStep)

\* ------------------------------------------------ matchTransactionWithEmails
\* Amounts are whole cents.  Email subjects and bodies are sequences of
\* one-character strings.
DigitChar(d) == <<"0", "1", "2", "3", "4", "5", "6", "7", "8", "9">>[d + 1]

IsDigit(c) == c \in {"0", "1", "2", "3", "4", "5", "6", "7", "8", "9"}

RECURSIVE Digits(_)
Digits(n) == IF n < 10 THEN <<DigitChar(n)>> ELSE Digits(n \div 10) \o <<DigitChar(n % 10)>>

\* amount.toFixed(2)
ToFixed2(cents) ==
  Digits(cents \div 100) \o <<".", DigitChar((cents % 100) \div 10), DigitChar(cents % 10)>>

\* amount.toFixed(0)
ToFixed0(cents) == Digits((cents + 50) \div 100)

\* s.split(/\s+/) without the empty strings
RECURSIVE Words(_)
Words(s) ==
  IF s = <<>> THEN <<>>
  ELSE IF Head(s) = " " THEN Words(Tail(s))
  ELSE LET w == TakeWord(s) IN <<w>> \o Words(SubSeq(s, Len(w) + 1, Len(s)))

LongerThanTwo(w) == Len(w) > 2

\* merchantName.toLowerCase().split(/\s+/).filter(w => w.length > 2)
MerchantKeywords(merchantName) == SelectSeq(Words(Lower(merchantName)), LongerThanTwo)

\* text.includes(word)
Includes(text, word) ==
  \E i \in 1..(Len(text) - Len(word) + 1) : SubSeq(text, i, i + Len(word) - 1) = word

\* new RegExp(pattern).test(text) for a pattern of literal characters and
\* unescaped dots: a dot stands for any character but a line break
RegexTest(text, pattern) ==
  \E i \in 1..(Len(text) - Len(pattern) + 1) :
    \A k \in 1..Len(pattern) :
      IF pattern[k] = "." THEN text[i + k - 1] # "\n" ELSE text[i + k - 1] = pattern[k]

\* `${email.subject} ${email.text}`.toLowerCase(), where getSubscriptionEmails
\* built text as subject, two line breaks, body
EmailText(email) ==
  Lower(email.subject \o <<" ">> \o email.subject \o <<"\n", "\n">> \o email.body)

\* merchantKeywords.some(keyword => emailText.includes(keyword))
HasMerchant(email, merchantName) ==
  LET kw == MerchantKeywords(merchantName)
  IN \E k \in 1..Len(kw) : Includes(EmailText(email), kw[k])

\* amountRegex.test(emailText) for
\* new RegExp(`\\$${amountStr}|${amountStr}|\\$${amount.toFixed(0)}`, 'i')
HasAmount(email, amount) ==
  \/ RegexTest(EmailText(email), <<"$">> \o ToFixed2(amount))
  \/ RegexTest(EmailText(email), ToFixed2(amount))
  \/ RegexTest(EmailText(email), <<"$">> \o ToFixed0(amount))

\* what the Gmail search `after:<after> before:<before>` selects by date:
\* after: takes the named day in, before: leaves the named day out
InWindow(day, after, before) == after <= day /\ day < before

\* getSubscriptionEmails(oauth2Client, {query: after:.. before:..}): of the
\* mailbox, in its order, the emails the search returns (date window and
\* subscription keywords) without those labelled CATEGORY_PROMOTIONS
FetchWindow(mailbox, date) ==
  LET Kept(e) == /\ InWindow(e.day, SetDate(date, -7), SetDate(date, 7))
                 /\ e.keyword
                 /\ ~e.promo
  IN SelectSeq(mailbox, Kept)

RECURSIVE FirstMatch(_, _, _)
FirstMatch(emails, merchantName, amount) ==
  IF emails = <<>> THEN [matched |-> FALSE, emailId |-> 0]
  ELSE IF HasMerchant(Head(emails), merchantName) /\ HasAmount(Head(emails), amount)
  THEN [matched |-> TRUE, emailId |-> Head(emails).id]
  ELSE FirstMatch(Tail(emails), merchantName, amount)

\* a matcher that takes a failed lookup for a match
MatchTransactionTrustsError(mailbox, fetchOk, merchantName, amount, date) ==
  IF fetchOk
  THEN [matched |-> FirstMatch(FetchWindow(mailbox, date), merchantName, amount).matched,
        emailId |-> FirstMatch(FetchWindow(mailbox, date), merchantName, amount).emailId,
        error |-> FALSE]
  ELSE [matched |-> TRUE, emailId |-> 0, error |-> TRUE]

\* matchTransactionWithEmails: fetchOk is false when getSubscriptionEmails
\* throws (no client, expired token, quota), which the catch turns into
\* {matched: false, error}
MatchTransactionWithEmails(mailbox, fetchOk, merchantName, amount, date) ==
  IF fetchOk
  THEN [matched |-> FirstMatch(FetchWindow(mailbox, date), merchantName, amount).matched,
        emailId |-> FirstMatch(FetchWindow(mailbox, date), merchantName, amount).emailId,
        error |-> FALSE]
  ELSE [matched |-> FALSE, emailId |-> 0, error |-> TRUE]

\* merchant names "NFP tv" and "nf"
MerchantNfpTv == <<"N", "F", "P", " ", "t", "v">>
MerchantNf == <<"n", "f">>

\* the day of the transactions that are matched against emails
MatchDay == DaysFromCivil(2026, 3, 1)

\* an email of the mailbox
Email(id, day, subject, body, keyword, promo) ==
  [id |-> id, day |-> day, subject |-> subject, body |-> body, keyword |-> keyword, promo |-> promo]

\* email bodies: "9.99", "$10", "19.99", "9x99", "8.00"
Bodies ==
  {<<"9", ".", "9", "9">>, <<"$", "1", "0">>, <<"1", "9", ".", "9", "9">>,
   <<"9", "x", "9", "9">>, <<"8", ".", "0", "0">>}

\* email subjects: "NFP", "tv"
Subjects == {<<"N", "F", "P">>, <<"t", "v">>}

\* the emails a mailbox may hold around MatchDay
Emails(id) ==
  {Email(id, SetDate(MatchDay, off), sj, bd, TRUE, FALSE) :
     off \in {-8, -7, 0, 7, 8}, sj \in Subjects, bd \in Bodies}
  \cup {Email(id, MatchDay, <<"N", "F", "P">>, <<"9", ".", "9", "9">>, kw, pr) :
          kw \in BOOLEAN, pr \in BOOLEAN}

\* mailboxes of one or two emails
Mailboxes ==
  {<<e>> : e \in Emails(1)}
  \cup {<<e, f>> : e \in {x \in Emails(1) : x.day = MatchDay}, f \in Emails(2)}

InitMatch ==
  /\ subs = <<>>
  /\ now = SetDate(MatchDay, 30)
  /\ calls = 0
  /\ lastCall = NoCall
  /\ ledger = {}
  /\ creds = NoUser
  /\ passes = 0
  /\ overlap = {}
  /\ applied = {}
  /\ run = [r \in Runners |-> NoRun]
  /\ pots = <<>>
  /\ bank = NoBank
  /\ match = NoMatch
  /\ rd = NoRead
  /\ sy = NoSyncs
  /\ ft = NoPass

\* one call matchTransactionWithEmails(userId, merchantName, amount,
\* transactionDate, oauth2Client) against a mailbox
MatchCall(mailbox, fetchOk, merchantName, amount) ==
  /\ match = NoMatch
  /\ LET res == MatchTransactionWithEmails(mailbox, fetchOk, merchantName, amount, MatchDay)
     IN match' = [n |-> 1, merchantName |-> merchantName, amount |-> amount, date |-> MatchDay,
                  emails |-> IF fetchOk THEN mailbox ELSE <<>>,
                  fetched |-> IF fetchOk THEN FetchWindow(mailbox, MatchDay) ELSE <<>>,
                  matched |-> res.matched, emailId |-> res.emailId]
  /\ UNCHANGED <<subs, now, pots, bank, rd, sy, ft>>
  /\ UNCHANGED mailVars

NextMatch ==
  \E mailbox \in Mailboxes, fetchOk \in BOOLEAN, m \in {MerchantNfpTv, MerchantNf} :
    MatchCall(mailbox, fetchOk, m, 999)

SpecMatch == InitMatch /\ [][NextMatch]_vars

\* ---------------------------------------------- bank sync, analyzeTransaction
MaxSync == 3

\* amount * 0.95 <= value <= amount * 1.05, in whole cents
InBand(value, amount) == 95 * amount <= 100 * value /\ 100 * value <= 105 * amount

\* PotentialSubscription.find({userId, merchantName regex, amount band,
\* transactionDate >= sixMonthsAgo, confidence in [confirmed, potential]})
SimilarTransactions(potStore, userId, merchantName, amount, date) ==
  {i \in 1..Len(potStore) :
     /\ potStore[i].userId = userId
     /\ RegexMatchCI(potStore[i].merchantName, merchantName)
     /\ InBand(potStore[i].amount, amount)
     /\ potStore[i].transactionDate >= SetMonth(date, -6)
     /\ potStore[i].confidence \in {"confirmed", "potential"}}

\* Subscription.find({userId, companyName regex, price band})
ExistingSubscriptions(store, userId, merchantName, amount) ==
  {j \in 1..Len(store) :
     /\ store[j].userId = userId
     /\ RegexMatchCI(store[j].companyName, merchantName)
     /\ InBand(store[j].price, amount)}

\* the frequency of an average interval of span / gaps days
FrequencyOf(span, gaps) ==
  IF 25 * gaps <= span /\ span <= 35 * gaps THEN "monthly"
  ELSE IF 350 * gaps <= span /\ span <= 380 * gaps THEN "yearly"
  ELSE IF 6 * gaps <= span /\ span <= 8 * gaps THEN "weekly"
  ELSE "unknown"

MinOf(S) == CHOOSE x \in S : \A y \in S : x <= y

MaxOf(S) == CHOOSE x \in S : \A y \in S : y <= x

\* allOccurrences.length >= 2
EnoughOccurrences(n) == n >= 2

\* detectRecurringPattern: allOccurrences holds one date per similar
\* transaction and per existing subscription with a startDate; the intervals
\* between consecutive dates of the sorted list add up to last minus first
DetectRecurringPattern(potStore, store, userId, merchantName, amount, date) ==
  LET similar == SimilarTransactions(potStore, userId, merchantName, amount, date)
      existing == {j \in ExistingSubscriptions(store, userId, merchantName, amount) :
                     store[j].startDate # NoDate}
      n == Cardinality(similar) + Cardinality(existing)
      days == {potStore[i].transactionDate : i \in similar} \cup {store[j].startDate : j \in existing}
  IN IF EnoughOccurrences(n)
     THEN [detected |-> TRUE,
           frequency |-> FrequencyOf(MaxOf(days) - MinOf(days), n - 1),
           occurrences |-> n + 1]
     ELSE [detected |-> FALSE, frequency |-> "unknown", occurrences |-> 1]

ClassifyPatternFirst(emailMatched, patternDetected) ==
  IF patternDetected THEN [confidence |-> "confirmed", reason |-> "transaction_pattern"]
  ELSE IF emailMatched THEN [confidence |-> "confirmed", reason |-> "transaction_email_match"]
  ELSE [confidence |-> "potential", reason |-> "transaction_only"]

\* analyzeTransaction, step 3: confidence and reason
Classify(emailMatched, patternDetected) ==
  IF emailMatched THEN [confidence |-> "confirmed", reason |-> "transaction_email_match"]
  ELSE IF patternDetected THEN [confidence |-> "confirmed", reason |-> "transaction_pattern"]
  ELSE [confidence |-> "potential", reason |-> "transaction_only"]

\* PotentialSubscription.findOne({userId, transactionId}): index or 0
FindPotential(potStore, userId, transactionId) ==
  IF \E i \in 1..Len(potStore) :
       potStore[i].userId = userId /\ potStore[i].transactionId = transactionId
  THEN CHOOSE i \in 1..Len(potStore) :
         potStore[i].userId = userId /\ potStore[i].transactionId = transactionId
  ELSE 0

\* analyzeTransaction from "Check if already exists" on: the existing
\* document of the transaction (index k) is updated, or a new one is created
SavePotential(potStore, userId, tx, pattern, emailMatch, cls, k) ==
  IF k # 0
  THEN [pots |-> [potStore EXCEPT ![k] =
                    [@ EXCEPT !.confidence = cls.confidence,
                              !.reason = cls.reason,
                              !.recurringPattern = pattern,
                              !.matchedEmailId =
                                 IF emailMatch.matched THEN emailMatch.emailId ELSE @]],
        id |-> k, matched |-> emailMatch.matched, error |-> emailMatch.error]
  ELSE [pots |-> Append(potStore,
                   [userId |-> userId,
                    merchantName |-> tx.merchantName,
                    amount |-> tx.amount,
                    currency |-> "USD",
                    transactionDate |-> tx.date,
                    transactionId |-> tx.transactionId,
                    confidence |-> cls.confidence,
                    reason |-> cls.reason,
                    recurringPattern |-> pattern,
                    matchedEmailId |-> IF emailMatch.matched THEN emailMatch.emailId ELSE 0,
                    action |-> IF cls.confidence = "confirmed" THEN "confirmed" ELSE "pending",
                    subscriptionId |-> NoSub]),
        id |-> Len(potStore) + 1, matched |-> emailMatch.matched, error |-> emailMatch.error]

\* analyzeTransaction, steps 1 to 3: pattern, email match, confidence and reason
Analysis(pattern, emailMatch) ==
  [pattern |-> pattern, emailMatch |-> emailMatch,
   cls |-> Classify(emailMatch.matched, pattern.detected)]

\* analyzeTransaction: the PotentialSubscription collection afterwards and the
\* index of the returned document
AnalyzeWith(potStore, userId, tx, a) ==
  SavePotential(potStore, userId, tx, a.pattern, a.emailMatch, a.cls,
                FindPotential(potStore, userId, tx.transactionId))

AnalyzeTransaction(potStore, store, mailbox, fetchOk, userId, tx) ==
  AnalyzeWith(potStore, userId, tx,
    Analysis(DetectRecurringPattern(potStore, store, userId, tx.merchantName, tx.amount, tx.date),
             MatchTransactionWithEmails(mailbox, fetchOk, tx.merchantName, tx.amount, tx.date)))

\* the extractedData that the sync and the confirm route build from a
\* PotentialSubscription document
BankEvidence(p) ==
  [eventType |-> "start",
   serviceName |-> p.merchantName,
   amount |-> p.amount,
   currency |-> OrElseStr(p.currency, "USD"),
   startDate |-> p.transactionDate,
   nextBillingDate |-> IF p.recurringPattern.detected /\ p.recurringPattern.frequency = "monthly"
                       THEN p.transactionDate + 30 ELSE NoDate,
   cancellationDate |-> NoDate,
   planName |-> 0]

\* the emailInfo that goes with it
BankInfo(p) == [id |-> p.transactionId, date |-> p.transactionDate]

ShouldAutoCreateAlways(confidence) == TRUE

\* if (analysis.confidence === 'confirmed')
ShouldAutoCreate(confidence) == confidence = "confirmed"

\* the transactions Plaid reports
Tx(userId, transactionId, merchantName, amount, date) ==
  [userId |-> userId, transactionId |-> transactionId, merchantName |-> merchantName,
   amount |-> amount, date |-> date]

BankDay == DaysFromCivil(2026, 1, 1)

MerchantNfp == <<"n", "f", "p">>

TxPool ==
  {Tx("u1", 1, MerchantNfpTv, 999, BankDay),
   Tx("u1", 2, MerchantNfpTv, 999, SetDate(BankDay, 29)),
   Tx("u1", 3, MerchantNfpTv, 999, SetDate(BankDay, 31)),
   Tx("u1", 4, MerchantNfp, 1040, SetDate(BankDay, 90)),
   Tx("u1", 5, MerchantNfpTv, 2000, SetDate(BankDay, 60)),
   Tx("u1", 6, MerchantNfpTv, 999, SetDate(BankDay, 250)),
   Tx("u2", 7, MerchantNfpTv, 999, SetDate(BankDay, 29))}

\* the Gmail mailbox of each user
Mailbox(u) ==
  IF u = "u1"
  THEN <<Email(31, SetDate(BankDay, 2), <<"N", "F", "P">>, <<"9", ".", "9", "9">>, TRUE, FALSE),
         Email(32, SetDate(BankDay, 30), <<"N", "F", "P">>, <<"9", ".", "9", "9">>, TRUE, FALSE)>>
  ELSE IF u = "u2"
  THEN <<Email(41, SetDate(BankDay, 29), <<"N", "F", "P">>, <<"$", "1", "0">>, TRUE, FALSE)>>
  ELSE <<>>

\* syncUserBankTransactions / POST /sync up to the loop: the user's tokens are
\* set on the shared client
SyncBegin(u) ==
  /\ bank.sync = NoUser
  /\ bank.n < MaxSync
  /\ bank' = [bank EXCEPT !.sync = u]
  /\ creds' = u
  /\ UNCHANGED <<subs, now, pots, match, rd, sy, ft>>
  /\ UNCHANGED <<calls, lastCall, ledger, passes, overlap, applied, run>>

\* the loop body after analyzeTransaction returned `analysis` (document an.id
\* of an.pots): the automatic creation when the analysis is confirmed and no
\* subscription of that merchant and price exists
SyncApply(u, tx, an, create) ==
  /\ pots' = an.pots
  /\ subs' = IF create
             THEN ProcessSubscriptionData(subs, u, BankEvidence(an.pots[an.id]),
                                          BankInfo(an.pots[an.id]), now).subs
             ELSE subs
  /\ now' = IF create THEN now + 1 ELSE now
  /\ bank' = [n |-> bank.n + 1, sync |-> u, kind |-> "sync", userId |-> u,
              merchantName |-> tx.merchantName, amount |-> tx.amount, date |-> tx.date,
              transactionId |-> tx.transactionId,
              known |-> FindPotential(pots, u, tx.transactionId) # 0,
              detected |-> an.pots[an.id].recurringPattern.detected,
              frequency |-> an.pots[an.id].recurringPattern.frequency,
              occurrences |-> an.pots[an.id].recurringPattern.occurrences,
              matched |-> an.matched, lookupFailed |-> an.error,
              confidence |-> an.pots[an.id].confidence, reason |-> an.pots[an.id].reason,
              applied |-> create,
              outcome |-> IF create
                          THEN ProcessSubscriptionData(subs, u, BankEvidence(an.pots[an.id]),
                                                       BankInfo(an.pots[an.id]), now).outcome
                          ELSE ""]

\* if (analysis.confidence === 'confirmed') and if (!existing)
AutoCreates(store, u, analysis) ==
  /\ ShouldAutoCreate(analysis.confidence)
  /\ ExistingSubscriptions(store, u, analysis.merchantName, analysis.amount) = {}

SyncAnalysed(u, tx, an) == SyncApply(u, tx, an, AutoCreates(subs, u, an.pots[an.id]))

\* one iteration of the loop over the transactions of the sync
SyncTransaction(tx, fetchOk) ==
  /\ bank.sync # NoUser
  /\ bank.n < MaxSync
  /\ tx.userId = bank.sync
  /\ SyncAnalysed(bank.sync, tx,
                  AnalyzeTransaction(pots, subs, Mailbox(creds), fetchOk, bank.sync, tx))
  /\ UNCHANGED <<match, rd, sy, ft>>
  /\ UNCHANGED mailVars

\* the loop is over
SyncEnd ==
  /\ bank.sync # NoUser
  /\ bank' = [bank EXCEPT !.sync = NoUser]
  /\ UNCHANGED <<subs, now, pots, match, rd, sy, ft>>
  /\ UNCHANGED mailVars

\* the log entry of a confirm or reject request on document p
RequestLog(kind, u, p, didApply, outcome) ==
  [n |-> bank.n + 1, sync |-> bank.sync, kind |-> kind, userId |-> u,
   merchantName |-> p.merchantName, amount |-> p.amount,
   date |-> p.transactionDate, transactionId |-> p.transactionId,
   known |-> TRUE,
   detected |-> p.recurringPattern.detected,
   frequency |-> p.recurringPattern.frequency,
   occurrences |-> p.recurringPattern.occurrences,
   matched |-> p.matchedEmailId # 0, lookupFailed |-> FALSE,
   confidence |-> p.confidence, reason |-> p.reason,
   applied |-> didApply, outcome |-> outcome]

\* POST /:id/confirm from processSubscriptionData on, res being its result
ConfirmApply(u, id, res) ==
  /\ subs' = res.subs
  /\ pots' = [pots EXCEPT ![id] = [@ EXCEPT !.confidence = "confirmed",
                                            !.action = "confirmed",
                                            !.subscriptionId = res.sid]]
  /\ bank' = RequestLog("confirm", u, pots[id], TRUE, res.outcome)
  /\ now' = now + 1

\* the 404 answer of the confirm and reject routes: the document is not the
\* user's
NotFound(u, id) ==
  /\ bank' = RequestLog("notfound", u, pots[id], FALSE, "")
  /\ UNCHANGED <<subs, pots, now>>

\* POST /api/potential-subscriptions/:id/confirm by user u; authenticateUser
\* has set the user's credentials on the shared client
ConfirmPotential(u, id) ==
  /\ bank.n < MaxSync
  /\ id \in 1..Len(pots)
  /\ IF pots[id].userId = u
     THEN ConfirmApply(u, id, ProcessSubscriptionData(subs, u, BankEvidence(pots[id]),
                                                      BankInfo(pots[id]), now))
     ELSE NotFound(u, id)
  /\ creds' = u
  /\ UNCHANGED <<match, rd, sy, ft>>
  /\ UNCHANGED <<calls, lastCall, ledger, passes, overlap, applied, run>>

\* POST /api/potential-subscriptions/:id/reject by user u
RejectPotential(u, id) ==
  /\ bank.n < MaxSync
  /\ id \in 1..Len(pots)
  /\ IF pots[id].userId = u
     THEN /\ pots' = [pots EXCEPT ![id] = [@ EXCEPT !.confidence = "rejected",
                                                    !.action = "rejected"]]
          /\ bank' = RequestLog("reject", u, pots[id], FALSE, "")
          /\ UNCHANGED <<subs, now>>
     ELSE NotFound(u, id)
  /\ creds' = u
  /\ UNCHANGED <<match, rd, sy, ft>>
  /\ UNCHANGED <<calls, lastCall, ledger, passes, overlap, applied, run>>

InitBank ==
  /\ subs = <<>>
  /\ now = SetDate(BankDay, 300)
  /\ calls = 0
  /\ lastCall = NoCall
  /\ ledger = {}
  /\ creds = NoUser
  /\ passes = 0
  /\ overlap = {}
  /\ applied = {}
  /\ run = [r \in Runners |-> NoRun]
  /\ pots = <<>>
  /\ bank = NoBank
  /\ match = NoMatch
  /\ rd = NoRead
  /\ sy = NoSyncs
  /\ ft = NoPass

NextBank ==
  \/ \E u \in Users : SyncBegin(u)
  \/ \E tx \in TxPool, fetchOk \in BOOLEAN : SyncTransaction(tx, fetchOk)
  \/ SyncEnd
  \/ \E u \in Users, id \in 1..MaxSync : ConfirmPotential(u, id)
  \/ \E u \in Users, id \in 1..MaxSync : RejectPotential(u, id)
  \/ \E u \in Users : Authenticate(u)

SpecBank == InitBank /\ [][NextBank]_vars

\* ------------------------------------------------- concurrent bank syncs
\* the user whose manual, scheduled and webhook syncs run at the same time
RaceUser == "u1"

\* analyzeTransaction of sync s up to and including
\* PotentialSubscription.findOne: the pattern, the email match and the
\* existing document (index or 0) are what the sync holds while it awaits
RaceRead(s, tx, fetchOk) ==
  /\ sy[s].pc = "idle"
  /\ tx.userId = RaceUser
  /\ bank.n + Cardinality({q \in Syncs : sy[q].pc = "write"}) < MaxSync
  /\ sy' = [sy EXCEPT ![s] =
              [pc |-> "write", tx |-> tx,
               a |-> Analysis(DetectRecurringPattern(pots, subs, RaceUser, tx.merchantName,
                                                     tx.amount, tx.date),
                              MatchTransactionWithEmails(Mailbox(creds), fetchOk, tx.merchantName,
                                                         tx.amount, tx.date)),
               k |-> FindPotential(pots, RaceUser, tx.transactionId)]]
  /\ UNCHANGED <<subs, now, pots, bank, match, rd, ft>>
  /\ UNCHANGED mailVars

\* the rest of the iteration: existing.save() or PotentialSubscription.create
\* (no unique index stands in its way), then the automatic creation
RaceWrite(s) ==
  /\ sy[s].pc = "write"
  /\ SyncAnalysed(RaceUser, sy[s].tx,
                  SavePotential(pots, RaceUser, sy[s].tx, sy[s].a.pattern, sy[s].a.emailMatch,
                                sy[s].a.cls, sy[s].k))
  /\ sy' = [sy EXCEPT ![s] = NoSync]
  /\ UNCHANGED <<match, rd, ft>>
  /\ UNCHANGED mailVars

InitRace ==
  /\ subs = <<>>
  /\ now = SetDate(BankDay, 300)
  /\ calls = 0
  /\ lastCall = NoCall
  /\ ledger = {}
  /\ creds = RaceUser
  /\ passes = 0
  /\ overlap = {}
  /\ applied = {}
  /\ run = [r \in Runners |-> NoRun]
  /\ pots = <<>>
  /\ bank = NoBank
  /\ match = NoMatch
  /\ rd = NoRead
  /\ sy = NoSyncs
  /\ ft = NoPass

NextRace ==
  \/ \E s \in Syncs, tx \in TxPool, fetchOk \in BOOLEAN : RaceRead(s, tx, fetchOk)
  \/ \E s \in Syncs : RaceWrite(s)

SpecRace == InitRace /\ [][NextRace]_vars

\* --------------------------------------------- email pass with fetch retry
\* const maxRetries = 1
MaxRetries == 1

\* the errors a Gmail request of fetchSubscriptionEmails can raise
FetchErrors ==
  {[message |-> "invalid_grant", code |-> 400],
   [message |-> "Token has been expired", code |-> 401],
   [message |-> "Invalid Credentials", code |-> 401],
   [message |-> "insufficient permission", code |-> 403],
   [message |-> "backend error", code |-> 500]}

\* fetchSubscriptionEmails, catch: throw new Error(`Failed to fetch emails:
\* ${error.message}`): the message is kept inside the new one, the code is not
\* carried over
WrapFetchError(e) == [message |-> e.message, code |-> 0]

\* gmailError.message?.includes('invalid_grant') ||
\* gmailError.message?.includes('Token has been expired') || gmailError.code === 401
IsTokenError(e) ==
  \/ e.message = "invalid_grant"
  \/ e.message = "Token has been expired"
  \/ e.code = 401

\* the emails of the pass: 51 a start for "Nf" dated 1, 52 a start for "f"
\* dated 2, 53 an email the extractor returns nothing for, 54 a renewal and
\* 55 a cancellation for "Nf" dated 3
PassMailIds == {51, 52, 53, 54, 55}

PassMail(id) ==
  CASE id = 51 -> [userId |-> "u1", date |-> 1, ev |-> Evidence("start", NameNf, 1, NoDate)]
    [] id = 52 -> [userId |-> "u1", date |-> 2, ev |-> Evidence("start", NameF, 1, NoDate)]
    [] id = 53 -> [userId |-> "u1", date |-> 3, ev |-> NoData]
    [] id = 54 -> [userId |-> "u1", date |-> 3, ev |-> Evidence("renewal", NameNf, 2, NoDate)]
    [] id = 55 -> [userId |-> "u1", date |-> 3, ev |-> Evidence("cancellation", NameNf, 0, NoDate)]

\* what getSubscriptionEmails can return under the credentials of user u:
\* up to MaxBatch of the user's emails, each once, in the order of the list
\* response
Batches(u) ==
  LET ids == {id \in PassMailIds : PassMail(id).userId = u}
  IN {b \in UNION {[1..n -> ids] : n \in 0..MaxBatch} :
        \A i, j \in 1..Len(b) : b[i] = b[j] => i = j}

\* processUserEmails / POST process-emails up to the retry loop: the early
\* returns (no tokens, scanning disabled) and the first ensureValidToken,
\* which refreshes the token when its stored expiry date says so
PassStart(u, canScan, stale, refreshOk) ==
  /\ ft.pc = "idle"
  /\ ft' = [NoPass EXCEPT !.n = 1, !.user = u,
                          !.pc = IF canScan /\ (~stale \/ refreshOk) THEN "try" ELSE "done",
                          !.result = IF canScan /\ (~stale \/ refreshOk) THEN "" ELSE "skipped"]
  /\ creds' = IF canScan THEN u ELSE creds
  /\ UNCHANGED <<subs, now, calls, lastCall, ledger, passes, overlap, applied, run>>
  /\ UNCHANGED <<pots, bank, match, rd, sy>>

AllBatches == UNION {Batches(u) : u \in Users}

\* one turn of while (retryCount <= maxRetries): getSubscriptionEmails
\* returns a batch, or throws an error that is a token error (go on to
\* ensureValidToken) or not (the pass ends with the error)
FetchTry(ok, err, batch) ==
  /\ ft.pc = "try"
  /\ ft.retryCount <= MaxRetries
  /\ batch \in Batches(creds)
  /\ ft' = IF ok
           THEN [ft EXCEPT !.attempts = @ + 1,
                           !.batch = batch,
                           !.idx = 1,
                           !.seen = {l.emailId : l \in {x \in ledger : x.userId = ft.user}},
                           !.pc = IF batch = <<>> THEN "done" ELSE "loop",
                           !.result = IF batch = <<>> THEN "empty" ELSE ""]
           ELSE [ft EXCEPT !.attempts = @ + 1,
                           !.errors = Append(@, err),
                           !.pc = IF IsTokenError(WrapFetchError(err)) /\ ft.retryCount < MaxRetries
                                  THEN "ensure" ELSE "done",
                           !.result = IF IsTokenError(WrapFetchError(err)) /\ ft.retryCount < MaxRetries
                                      THEN "" ELSE "error"]
  /\ UNCHANGED <<subs, now, calls, lastCall, ledger, creds, passes, overlap, applied, run>>
  /\ UNCHANGED <<pots, bank, match, rd, sy>>

\* the catch of the retry loop on a token error: ensureValidToken, which
\* calls refreshGoogleToken only when the stored expiry date is within 5
\* minutes (stale); then retryCount++ and continue, or the pass is given up
\* when the refresh fails
FetchEnsure(stale, refreshOk) ==
  /\ ft.pc = "ensure"
  /\ ft' = [ft EXCEPT !.ensures = @ + 1,
                      !.refreshes = IF stale THEN @ + 1 ELSE @,
                      !.retryCount = IF ~stale \/ refreshOk THEN @ + 1 ELSE @,
                      !.pc = IF ~stale \/ refreshOk THEN "try" ELSE "done",
                      !.result = IF ~stale \/ refreshOk THEN "" ELSE "skipped"]
  /\ UNCHANGED <<subs, now, calls, lastCall, ledger, creds, passes, overlap, applied, run>>
  /\ UNCHANGED <<pots, bank, match, rd, sy>>

\* an iteration that marks the email processed whether or not
\* processSubscriptionData threw
ItemKindIgnoresErrors(inSeen, dup, valid, fault) ==
  IF inSeen THEN "already"
  ELSE IF fault = "ai" THEN "failed"
  ELSE IF ~valid THEN (IF dup \/ fault = "ledger" THEN "failed" ELSE "skipped")
  ELSE IF dup \/ fault = "ledger" THEN "failed"
  ELSE "processed"

\* an iteration that records every email without usable evidence as failed
ItemKindNoSkip(inSeen, dup, valid, fault) ==
  IF inSeen THEN "already"
  ELSE IF fault \in {"ai", "db"} \/ ~valid THEN "failed"
  ELSE IF dup \/ fault = "ledger" THEN "failed"
  ELSE "processed"

\* what one iteration of the loop over the emails comes to.  fault: which
\* await of the try block throws, if any ("ai": extractFromSingleEmail, "db":
\* processSubscriptionData, "ledger": ProcessedEmail.create)
ItemKind(inSeen, dup, valid, fault) ==
  IF inSeen THEN "already"
  ELSE IF fault = "ai" THEN "failed"
  ELSE IF ~valid THEN (IF dup \/ fault = "ledger" THEN "failed" ELSE "skipped")
  ELSE IF fault = "db" THEN "failed"
  ELSE IF dup \/ fault = "ledger" THEN "failed"
  ELSE "processed"

\* counters that follow the event type whatever became of the email
TallyAnyKind(kind, eventType, types) == IF eventType \in types THEN 1 ELSE 0

\* created++ / updated++ / cancelled++ behind processed++: 1 when the
\* iteration got there and the event type is one of `types`
Tally(kind, eventType, types) == IF kind = "processed" /\ eventType \in types THEN 1 ELSE 0

\* the try block got as far as processSubscriptionData and it returned
ItemCalled(inSeen, valid, fault) == ~inSeen /\ valid /\ fault \notin {"ai", "db"}

\* the iteration for email id, res being what processSubscriptionData does
\* when it is called
PassApply(id, kind, called, fault, res) ==
  /\ subs' = IF called THEN res.subs ELSE subs
  /\ lastCall' = IF called
                 THEN CallLog(subs, ft.user, PassMail(id).ev,
                              [id |-> id, date |-> PassMail(id).date], res, lastCall)
                 ELSE lastCall
  /\ now' = IF called THEN now + 1 ELSE now
  /\ ledger' = IF kind \in {"processed", "skipped", "failed"}
                  /\ ~\E l \in ledger : l.userId = ft.user /\ l.emailId = id
               THEN ledger \cup {[userId |-> ft.user, emailId |-> id, status |-> kind,
                                  subscriptionId |-> IF kind = "processed" THEN res.sid ELSE NoSub]}
               ELSE ledger
  /\ ft' = [ft EXCEPT !.idx = @ + 1,
                      !.last = kind,
                      !.fault = fault,
                      !.newest = IF called /\ res.outcome # "discarded" /\ PassMail(id).date > @
                                 THEN PassMail(id).date ELSE @,
                      !.called = IF called THEN @ \cup {id} ELSE @,
                      !.alreadyProcessed = IF kind = "already" THEN @ + 1 ELSE @,
                      !.skipped = IF kind \in {"skipped", "failed"} THEN @ + 1 ELSE @,
                      !.processed = IF kind = "processed" THEN @ + 1 ELSE @,
                      !.created = @ + Tally(kind, PassMail(id).ev.eventType, {"start"}),
                      !.updated = @ + Tally(kind, PassMail(id).ev.eventType, {"renewal", "change"}),
                      !.cancelled = @ + Tally(kind, PassMail(id).ev.eventType, {"cancellation"})]

\* one iteration of `for (const email of emails)`, with its try/catch
PassItem(fault) ==
  /\ ft.pc = "loop"
  /\ ft.idx <= Len(ft.batch)
  /\ LET id == ft.batch[ft.idx]
         valid == PassMail(id).ev.eventType # "" /\ PassMail(id).ev.serviceName # <<>>
         dup == \E l \in ledger : l.userId = ft.user /\ l.emailId = id
     IN PassApply(id, ItemKind(id \in ft.seen, dup, valid, fault),
                  ItemCalled(id \in ft.seen, valid, fault), fault,
                  ProcessSubscriptionData(subs, ft.user, PassMail(id).ev,
                                          [id |-> id, date |-> PassMail(id).date], now))
  /\ UNCHANGED <<calls, creds, passes, overlap, applied, run>>
  /\ UNCHANGED <<pots, bank, match, rd, sy>>

\* after the loop: lastEmailScanDate is set and the summary returned
PassFinish ==
  /\ ft.pc = "loop"
  /\ ft.idx > Len(ft.batch)
  /\ ft' = [ft EXCEPT !.pc = "done", !.result = "summary", !.totalEmails = Len(ft.batch)]
  /\ UNCHANGED <<subs, now, calls, lastCall, ledger, creds, passes, overlap, applied, run>>
  /\ UNCHANGED <<pots, bank, match, rd, sy>>

\* the ProcessedEmail collection an earlier pass may have left
EarlierLedgers ==
  {{},
   {[userId |-> "u1", emailId |-> 53, status |-> "skipped", subscriptionId |-> NoSub]},
   {[userId |-> "u1", emailId |-> 51, status |-> "failed", subscriptionId |-> NoSub]}}

InitPass ==
  /\ subs = <<>>
  /\ now = MaxDate + 1
  /\ calls = 0
  /\ lastCall = NoCall
  /\ ledger \in EarlierLedgers
  /\ creds = NoUser
  /\ passes = 0
  /\ overlap = {}
  /\ applied = {}
  /\ run = [r \in Runners |-> NoRun]
  /\ pots = <<>>
  /\ bank = NoBank
  /\ match = NoMatch
  /\ rd = NoRead
  /\ sy = NoSyncs
  /\ ft = NoPass

NextPass ==
  \/ \E u \in Users, canScan, stale, refreshOk \in BOOLEAN : PassStart(u, canScan, stale, refreshOk)
  \/ \E ok \in BOOLEAN, err \in FetchErrors, batch \in AllBatches : FetchTry(ok, err, batch)
  \/ \E stale, refreshOk \in BOOLEAN : FetchEnsure(stale, refreshOk)
  \/ \E fault \in {"none", "ai", "db", "ledger"} : PassItem(fault)
  \/ PassFinish

SpecPass == InitPass /\ [][NextPass]_vars

\* ================================================================ claims
\* the step is one processSubscriptionData invocation
IsCall == lastCall'.n = lastCall.n + 1

\* the invocation follows another one of the same user that returned the
\* same subscription
SameSubAsPrevious ==
  /\ IsCall
  /\ lastCall.n > 0
  /\ lastCall'.userId = lastCall.userId
  /\ lastCall'.sid = lastCall.sid

\* C3 (as claimed): B then A on the same subscription, A older than B and not
\* a cancellation: A leaves the collection exactly as it was after B.
C3_OlderAfterNewerDiscarded ==
  [][(/\ SameSubAsPrevious
      /\ lastCall'.date < lastCall.date
      /\ lastCall'.eventType # "cancellation") => subs' = subs]_vars

\* C3 (amended): the same, for a B that was not itself a cancellation
\* discarded as stale.
C3_OlderAfterAppliedNewerDiscarded ==
  [][(/\ SameSubAsPrevious
      /\ lastCall'.date < lastCall.date
      /\ lastCall'.eventType # "cancellation"
      /\ ~(lastCall.eventType = "cancellation" /\ lastCall.outcome = "discarded"))
     => subs' = subs]_vars

\* an older renewal was discarded right after the evidence that last wrote the
\* subscription
C3_Witness ==
  /\ lastCall.n >= 2
  /\ lastCall.eventType = "renewal"
  /\ lastCall.outcome = "discarded"
  /\ subs[lastCall.sid].sourceEmailId = lastCall.id - 1
  /\ subs[lastCall.sid].sourceEmailDate > lastCall.date

\* C4: a cancellation for an existing subscription is discarded when its
\* effective date (cancellationDate, else the email date) is earlier than the
\* subscription's sourceEmailDate, and otherwise cancels it.
C4_CancellationComparedByEffectiveDate ==
  [][(/\ IsCall
      /\ lastCall'.eventType = "cancellation"
      /\ lastCall'.existing # NoSub)
     => LET sid == lastCall'.existing
            eff == IF lastCall'.cancellationDate # NoDate
                   THEN lastCall'.cancellationDate ELSE lastCall'.date
        IN IF eff < subs[sid].sourceEmailDate
           THEN subs' = subs
           ELSE /\ subs'[sid].status = "cancelled"
                /\ subs'[sid].cancellationDate # NoDate
                /\ subs'[sid].accessEndDate # NoDate]_vars

\* C5 (as claimed): no applied evidence lowers a subscription's
\* sourceEmailDate.
C5_LastAppliedDateNeverDecreases ==
  [][\A i \in 1..Len(subs) : subs'[i].sourceEmailDate >= subs[i].sourceEmailDate]_vars

\* C5 (amended): no start, renewal or change lowers a subscription's
\* sourceEmailDate.
C5_NonCancellationNeverLowersDate ==
  [][(IsCall /\ lastCall'.eventType # "cancellation")
     => \A i \in 1..Len(subs) : subs'[i].sourceEmailDate >= subs[i].sourceEmailDate]_vars

\* a change was applied to a subscription and raised its sourceEmailDate
C5_Witness ==
  /\ lastCall.eventType = "change"
  /\ lastCall.outcome = "updated"
  /\ lastCall.wasDate < lastCall.date
  /\ subs[lastCall.sid].sourceEmailDate = lastCall.date

\* C6: a start or renewal applied to a cancelled subscription leaves it active
\* with cancellationDate and accessEndDate null; a renewal that follows a
\* cancellation of the same subscription and is not older ends that way.
C6_StartOrRenewalReactivates ==
  [][/\ (/\ IsCall
         /\ lastCall'.eventType \in {"start", "renewal"}
         /\ lastCall'.outcome = "updated"
         /\ subs[lastCall'.existing].status = "cancelled")
        => /\ subs'[lastCall'.sid].status = "active"
           /\ subs'[lastCall'.sid].cancellationDate = NoDate
           /\ subs'[lastCall'.sid].accessEndDate = NoDate
     /\ (/\ SameSubAsPrevious
         /\ lastCall.eventType = "cancellation"
         /\ lastCall.outcome \in {"created", "cancelled"}
         /\ lastCall'.eventType = "renewal"
         /\ lastCall'.date >= lastCall.date)
        => /\ subs'[lastCall'.sid].status = "active"
           /\ subs'[lastCall'.sid].cancellationDate = NoDate]_vars

\* a renewal has just reactivated a cancelled subscription
C6_Witness ==
  /\ lastCall.eventType = "renewal"
  /\ lastCall.outcome = "updated"
  /\ lastCall.wasStatus = "cancelled"
  /\ subs[lastCall.sid].status = "active"
  /\ subs[lastCall.sid].cancellationDate = NoDate

\* no two documents of one user share a base brand token
OnePerIdentity(store) ==
  \A i, j \in 1..Len(store) :
    (i # j /\ store[i].userId = store[j].userId)
      => Lower(BaseName(store[i].companyName)) # Lower(BaseName(store[j].companyName))

\* C10: serial calls keep one document per user and identity; evidence that
\* resolves to an existing document creates none; a start followed by a
\* renewal of the same name that is not older leaves one document with the
\* renewal's price.
C10_OneSubscriptionPerIdentity ==
  [][/\ OnePerIdentity(subs')
     /\ (IsCall /\ lastCall'.existing # NoSub) => Len(subs') = Len(subs)
     /\ (/\ IsCall
         /\ lastCall.n > 0
         /\ lastCall'.userId = lastCall.userId
         /\ lastCall.eventType = "start"
         /\ lastCall.outcome = "created"
         /\ lastCall'.eventType = "renewal"
         /\ lastCall'.name = lastCall.name
         /\ lastCall'.date >= lastCall.date
         /\ lastCall'.amount # 0)
        => /\ Len(subs') = Len(subs)
           /\ lastCall'.sid = lastCall.sid
           /\ subs'[lastCall'.sid].price = lastCall'.amount]_vars

\* a renewal in other letter case and with a plan suffix updated the only
\* document of the user to its price
C10_Witness ==
  /\ lastCall.eventType = "renewal"
  /\ lastCall.outcome = "updated"
  /\ lastCall.name = NameNfP
  /\ lastCall.amount = 2
  /\ Cardinality({i \in 1..Len(subs) : subs[i].userId = lastCall.userId}) = 1
  /\ subs[lastCall.sid].companyName = NameNf
  /\ subs[lastCall.sid].price = 2

\* the step is one loop iteration of runner r
ItemStep(r) == run[r].pc = "loop" /\ run'[r].idx = run[r].idx + 1

\* the documents without their updatedAt timestamp
Content(store) == [i \in 1..Len(store) |-> [store[i] EXCEPT !.updatedAt = 0]]

\* C1: an iteration over an email whose evidence was already written to the
\* collection for this user (in an earlier pass or earlier in the batch)
\* leaves every document as it was and does not increment processed, created,
\* updated or cancelled.
C1_SecondApplicationIsNoOp ==
  [][\A r \in Runners :
       (/\ ItemStep(r)
        /\ \E a \in applied : a.userId = run[r].user /\ a.emailId = run'[r].email)
       => /\ Content(subs') = Content(subs)
          /\ run'[r].processed = run[r].processed
          /\ run'[r].created = run[r].created
          /\ run'[r].updated = run[r].updated
          /\ run'[r].cancelled = run[r].cancelled]_vars

\* C2: no email's evidence is written to the collection by two passes of the
\* same user that were in progress at the same time.
C2_ClaimedByAtMostOnePass ==
  \A a, b \in applied :
    (a.userId = b.userId /\ a.emailId = b.emailId /\ a.pass # b.pass)
      => {a.pass, b.pass} \notin overlap

\* C7: a failed item gets a ledger entry with status failed, and a pass that
\* started after that entry was written does not treat the email as already
\* processed.
C7_FailedEntryAllowsRetry ==
  [][\A r \in Runners :
       /\ (/\ ItemStep(r)
           /\ run'[r].last = "failed"
           /\ ~\E l \in ledger : l.userId = run[r].user /\ l.emailId = run'[r].email)
          => \E l \in ledger' :
               l.userId = run[r].user /\ l.emailId = run'[r].email /\ l.status = "failed"
       /\ (/\ ItemStep(r)
           /\ run'[r].email \in run[r].seen
           /\ \E l \in ledger :
                l.userId = run[r].user /\ l.emailId = run'[r].email /\ l.status = "failed")
          => run'[r].last # "already"]_vars

\* C8: an iteration that ends in the catch block leaves the Subscription
\* collection as it was before the iteration, and the loop goes on.
C8_FailedItemIsIsolated ==
  [][\A r \in Runners :
       (ItemStep(r) /\ run'[r].last = "failed")
       => /\ subs' = subs
          /\ run'[r].pc = "loop"]_vars

\* C9: the emails of a pass are fetched with the credentials of the user of
\* the pass.
C9_FetchUsesOwnCredentials ==
  \A r \in Runners : run[r].usedCreds \in {NoUser, run[r].user}

\* the read has returned through getUserSubscriptions
ReadDone == rd.pc = "done" /\ IsProjected(rd.path)

\* the document at position k of the result, as stored when the read began
Orig(k) == rd.orig[rd.list[k]]

\* C17: the backfill loop runs at most 120 iterations and the roll-forward
\* loop at most 24 for each subscription, and every read that has started
\* returns.
C17_ProjectionTerminates ==
  /\ [](rd.pc = "backfill" => rd.iterations <= BackfillCap)
  /\ [](rd.pc = "roll" => rd.iterations <= RollCap)
  /\ ((rd.pc = "scan") ~> (rd.pc = "done"))

\* a read returned after the backfill loop stopped at its cap with the date
\* still in the past
C17_Witness ==
  /\ ReadDone
  /\ \E k \in 1..Len(rd.view) :
       /\ rd.iters[rd.list[k]] = BackfillCap
       /\ Orig(k).nextRenewalDate = NoDate
       /\ rd.view[k].nextRenewalDate < now

\* C18: an active monthly subscription without nextRenewalDate whose
\* startDate is 10 years before now is returned with a nextRenewalDate no
\* more than one month before or after now.
C18_TenYearBackfillLandsNearNow ==
  ReadDone =>
    \A k \in 1..Len(rd.view) :
      (/\ Orig(k).status = "active"
       /\ Orig(k).nextRenewalDate = NoDate
       /\ Orig(k).frequency = "monthly"
       /\ Orig(k).startDate = SetFullYear(now, -10))
      => /\ rd.view[k].nextRenewalDate >= SetMonth(now, -1)
         /\ rd.view[k].nextRenewalDate <= SetMonth(now, 1)

\* the backfill of such a subscription ran all 120 iterations
C18_Witness ==
  /\ ReadDone
  /\ \E k \in 1..Len(rd.view) :
       /\ Orig(k).status = "active"
       /\ Orig(k).nextRenewalDate = NoDate
       /\ Orig(k).frequency = "monthly"
       /\ Orig(k).startDate = SetFullYear(now, -10)
       /\ rd.iters[rd.list[k]] = BackfillCap
       /\ rd.view[k].nextRenewalDate >= now

\* the read returned an active monthly subscription whose nextRenewalDate was
\* now - 95 days
Overdue95(k) ==
  /\ Orig(k).status = "active"
  /\ Orig(k).frequency = "monthly"
  /\ Orig(k).nextRenewalDate = SetDate(now, -95)

C20_EveryReadIsProjected ==
  rd.pc = "done" =>
    \A k \in 1..Len(rd.view) :
      (rd.view[k].startDate # NoDate \/ rd.view[k].nextRenewalDate # NoDate)
      => \/ rd.view[k].nextRenewalDate # NoDate /\ rd.view[k].nextRenewalDate >= now
         \/ rd.iters[rd.list[k]] \in {BackfillCap, RollCap}

\* the emails of the mailbox that the search keywords and labels let through
Listed(e) == e.keyword /\ ~e.promo

\* C15: of the listed emails of the mailbox, the matcher considers exactly
\* those dated within 7 days of the transaction, both ends included.
C15_WindowInclusive ==
  match.n = 1 =>
    \A i \in 1..Len(match.emails) :
      LET e == match.emails[i]
      IN Listed(e) =>
           ((\E j \in 1..Len(match.fetched) : match.fetched[j] = e)
            <=> (SetDate(match.date, -7) <= e.day /\ e.day <= SetDate(match.date, 7)))

\* the text holds the two-decimal amount string as a number of its own: not
\* the tail or the head of a longer number
ExactAmount(text, amount) ==
  LET str == ToFixed2(amount)
  IN \E i \in 1..(Len(text) - Len(str) + 1) :
       /\ SubSeq(text, i, i + Len(str) - 1) = str
       /\ i > 1 => ~IsDigit(text[i - 1]) /\ text[i - 1] # "."
       /\ i + Len(str) <= Len(text) => ~IsDigit(text[i + Len(str)])

\* the considered email holds a merchant keyword and the exact amount string
KeywordAndExactAmount(e) ==
  /\ HasMerchant(e, match.merchantName)
  /\ ExactAmount(EmailText(e), match.amount)

\* C16: the matcher reports a match exactly when a considered email holds a
\* merchant keyword longer than 2 characters and the exact two-decimal amount
\* string, and it returns the first such email in fetch order.
C16_KeywordAndExactAmount ==
  match.n = 1 =>
    /\ match.matched <=> \E j \in 1..Len(match.fetched) : KeywordAndExactAmount(match.fetched[j])
    /\ match.matched =>
         \E j \in 1..Len(match.fetched) :
           /\ match.fetched[j].id = match.emailId
           /\ KeywordAndExactAmount(match.fetched[j])
           /\ \A k \in 1..(j - 1) : ~KeywordAndExactAmount(match.fetched[k])

\* a step that is one analysed transaction of a bank sync
IsSync == bank'.n = bank.n + 1 /\ bank'.kind = "sync"

\* C11: a sync step whose analysis is potential leaves the Subscription
\* collection as it was, and the collection changes only in a sync step whose
\* analysis is confirmed or in a confirm request of the user.
C11_PotentialNeverAutoApplied ==
  [][/\ (IsSync /\ bank'.confidence = "potential") => subs' = subs
     /\ subs' # subs => \/ IsSync /\ bank'.confidence = "confirmed"
                        \/ bank'.n = bank.n + 1 /\ bank'.kind = "confirm"]_vars

\* a transaction was analysed as potential while the user has a subscription
\* of that merchant, which a start event would have updated
C11_Witness ==
  /\ bank.kind = "sync"
  /\ bank.confidence = "potential"
  /\ ~bank.applied
  /\ FindExistingSubscription(subs, bank.userId, bank.merchantName) # NoSub
  /\ \E i \in 1..Len(pots) :
       pots[i].transactionId = bank.transactionId /\ pots[i].confidence = "potential"

\* C12: the analysis of a transaction carries (confirmed,
\* transaction_email_match) when an email matched, else (confirmed,
\* transaction_pattern) when a pattern was detected, else (potential,
\* transaction_only).
C12_PriorityTable ==
  bank.kind = "sync" =>
    /\ bank.matched
       => bank.confidence = "confirmed" /\ bank.reason = "transaction_email_match"
    /\ (~bank.matched /\ bank.detected)
       => bank.confidence = "confirmed" /\ bank.reason = "transaction_pattern"
    /\ (~bank.matched /\ ~bank.detected)
       => bank.confidence = "potential" /\ bank.reason = "transaction_only"

\* a transaction with both an email match and a detected pattern was analysed
C12_Witness ==
  /\ bank.kind = "sync"
  /\ bank.matched
  /\ bank.detected
  /\ bank.reason = "transaction_email_match"

\* the number of occurrences before the transaction that is analysed next:
\* the similar transactions other than its own document, and the
\* subscriptions of that merchant and price band with a startDate
PriorOccurrences ==
  Cardinality(SimilarTransactions(pots, bank'.userId, bank'.merchantName, bank'.amount, bank'.date)
              \ {FindPotential(pots, bank'.userId, bank'.transactionId)})
  + Cardinality({j \in ExistingSubscriptions(subs, bank'.userId, bank'.merchantName, bank'.amount) :
                   subs[j].startDate # NoDate})

\* the dates of these occurrences
PriorDays ==
  {pots[i].transactionDate :
     i \in SimilarTransactions(pots, bank'.userId, bank'.merchantName, bank'.amount, bank'.date)
           \ {FindPotential(pots, bank'.userId, bank'.transactionId)}}
  \cup {subs[j].startDate :
          j \in {k \in ExistingSubscriptions(subs, bank'.userId, bank'.merchantName, bank'.amount) :
                   subs[k].startDate # NoDate}}

\* C13: the pattern of a transaction without a prior occurrence is
\* (not detected, unknown, 1), and a pattern is detected as soon as there is
\* one prior occurrence within the amount band.
C13_DetectedFromTwoOccurrences ==
  [][IsSync =>
       /\ PriorOccurrences = 0
          => ~bank'.detected /\ bank'.frequency = "unknown" /\ bank'.occurrences = 1
       /\ PriorOccurrences >= 1 => bank'.detected]_vars

\* C14: a detected pattern carries the frequency of the mean gap of the prior
\* dates in ascending order followed by the transaction date, and the number
\* of prior occurrences plus one.
C14_FrequencyFromMeanGap ==
  [][(IsSync /\ bank'.detected) =>
       /\ PriorOccurrences >= 1
       /\ bank'.frequency = FrequencyOf(bank'.date - MinOf(PriorDays), PriorOccurrences)
       /\ bank'.occurrences = PriorOccurrences + 1]_vars

Doc == FindPotential(pots, bank'.userId, bank'.transactionId)

\* a step that is a confirm request on a document of the user
IsConfirm == bank'.n = bank.n + 1 /\ bank'.kind = "confirm"

\* C23: a confirm request on a document of the user applies the start event
\* (it is not discarded); afterwards the linked Subscription is the user's,
\* carries the merchant's name and is active, and the document is confirmed
\* with action confirmed.  On a document of another user nothing changes.
C23_ConfirmAppliesStart ==
  [][/\ IsConfirm =>
          /\ bank'.outcome # "discarded"
          /\ pots'[Doc].confidence = "confirmed"
          /\ pots'[Doc].action = "confirmed"
          /\ pots'[Doc].subscriptionId \in 1..Len(subs')
          /\ LET sub == subs'[pots'[Doc].subscriptionId]
             IN /\ sub.userId = bank'.userId
                /\ RegexMatchCI(sub.companyName, BaseName(bank'.merchantName))
                /\ sub.status = "active"
     /\ (bank'.n = bank.n + 1 /\ bank'.kind = "notfound") => subs' = subs /\ pots' = pots]_vars

\* C26: a sync step that analyses a transaction whose document is rejected
\* leaves the document rejected and the Subscription collection as it was.
C26_RejectedStaysRejected ==
  [][(IsSync /\ Doc # 0 /\ pots[Doc].confidence = "rejected") =>
       /\ pots'[Doc].confidence = "rejected"
       /\ subs' = subs]_vars

\* C27: a transaction analysed twice in a row, with the same outcome of the
\* email match, gets the same confidence, reason and recurring pattern.
C27_ReanalysisIsStable ==
  [][(/\ IsSync
      /\ bank.kind = "sync"
      /\ bank.userId = bank'.userId
      /\ bank.transactionId = bank'.transactionId
      /\ bank.matched = bank'.matched) =>
       /\ bank'.confidence = bank.confidence
       /\ bank'.reason = bank.reason
       /\ bank'.detected = bank.detected
       /\ bank'.frequency = bank.frequency
       /\ bank'.occurrences = bank.occurrences]_vars

\* the occurrences of the analysed transaction's merchant and amount band
\* that are dated within the 6 months before it or later: documents that are
\* confirmed or potential, and subscriptions by their startDate
InLookback ==
  Cardinality({i \in 1..Len(pots) :
                 /\ pots[i].userId = bank'.userId
                 /\ RegexMatchCI(pots[i].merchantName, bank'.merchantName)
                 /\ InBand(pots[i].amount, bank'.amount)
                 /\ pots[i].confidence \in {"confirmed", "potential"}
                 /\ pots[i].transactionDate >= SetMonth(bank'.date, -6)})
  + Cardinality({j \in 1..Len(subs) :
                   /\ subs[j].userId = bank'.userId
                   /\ RegexMatchCI(subs[j].companyName, bank'.merchantName)
                   /\ InBand(subs[j].price, bank'.amount)
                   /\ subs[j].startDate # NoDate
                   /\ subs[j].startDate >= SetMonth(bank'.date, -6)})

\* C28: the pattern of a transaction counts no occurrence older than 6
\* months, from either source: fewer than 2 occurrences within the lookback
\* give no pattern, and otherwise occurrences is their number plus one.
C28_SixMonthLookback ==
  [][IsSync =>
       IF InLookback >= 2
       THEN bank'.detected /\ bank'.occurrences = InLookback + 1
       ELSE ~bank'.detected /\ bank'.occurrences = 1]_vars

\* C30: a confirmed document never has the action pending, and a document
\* with the action pending is potential.
C30_ConfidenceAgreesWithAction ==
  \A i \in 1..Len(pots) :
    /\ pots[i].confidence = "confirmed" => pots[i].action # "pending"
    /\ pots[i].action = "pending" => pots[i].confidence = "potential"

\* C29: the PotentialSubscription collection holds at most one document per
\* (userId, transactionId), whatever the interleaving of the syncs.
C29_OnePotentialPerTransaction ==
  \A i, j \in 1..Len(pots) :
    (pots[i].userId = pots[j].userId /\ pots[i].transactionId = pots[j].transactionId) => i = j

\* the first fetch of the pass threw an error the retry loop's own test, read
\* on the Gmail error, takes for an expired authentication
FirstFetchExpired == Len(ft.errors) >= 1 /\ IsTokenError(ft.errors[1])

\* C21: when the email fetch fails with an authentication-expiry error, the
\* pass performs exactly one token refresh followed by exactly one retry
\* (unless the refresh itself fails), and the fetch is attempted at most twice
\* per pass, a second failure ending the pass with the error.
C21_OneRefreshOneRetry ==
  /\ ft.attempts <= 2
  /\ (Len(ft.errors) = 2 => ft.pc = "done" /\ ft.result = "error")
  /\ (FirstFetchExpired /\ ft.pc \in {"loop", "done"} /\ ft.result # "skipped")
       => ft.refreshes = 1 /\ ft.attempts = 2

\* a PassItem step in which processSubscriptionData applied the evidence
PassApplied ==
  ft.pc = "loop" /\ ft'.idx = ft.idx + 1 /\ now' = now + 1 /\ lastCall'.outcome # "discarded"

\* C22: within one user's pass, items are applied one at a time and in
\* ascending order of evidence date: no item is applied after a newer item of
\* the same batch was applied.
C22_OldestFirst == [][PassApplied => lastCall'.date >= ft.newest]_vars

\* a PassItem step on an email not in the ledger for which the extractor
\* returned nothing, or evidence without serviceName or eventType
SkipStep ==
  /\ ft.pc = "loop" /\ ft'.idx = ft.idx + 1
  /\ ft.batch[ft.idx] \notin ft.seen
  /\ PassMail(ft.batch[ft.idx]).ev.eventType = ""
  /\ ft'.fault # "ai"

SkipEntry(status) ==
  [userId |-> ft.user, emailId |-> ft.batch[ft.idx], status |-> status, subscriptionId |-> NoSub]

RECURSIVE Periods(_, _, _)
Periods(d, f, k) ==
  IF k = 0 THEN d
  ELSE IF k = 1 THEN AddPeriod(d, f)
  ELSE LET half == Periods(d, f, k \div 2)
       IN IF half = NoDate THEN NoDate ELSE Periods(half, f, k - (k \div 2))

\* the document at position k of the result carries the first of the dates
\* from + 0, 1, 2, ... periods that is not before now, or from + cap periods
\* when that takes more than cap periods
FirstPeriodFrom(k, from, cap) ==
  LET n == rd.iters[rd.list[k]]
      f == Orig(k).frequency
  IN /\ n <= cap
     /\ rd.view[k].nextRenewalDate = Periods(from, f, n)
     /\ (n < cap => rd.view[k].nextRenewalDate >= now)
     /\ (n > 0 => Periods(from, f, n - 1) < now)

ContainsToken(companyName, token) ==
  \E i \in 0..(Len(companyName) - Len(token)) :
    \A j \in 1..Len(token) : LowerChar(companyName[i + j]) = LowerChar(token[j])

\* the documents of the user whose companyName holds the first
\* whitespace-delimited token of rawName
OwnCandidates(store, userId, rawName) ==
  {i \in 1..Len(store) :
     store[i].userId = userId /\ ContainsToken(store[i].companyName, BaseName(rawName))}

\* C34: the identity resolver returns, among the calling user's own
\* subscriptions whose companyName case-insensitively contains the first
\* token of rawName, the most recently updated one, or null when there is
\* none; never a subscription of another user; and the lookup changes
\* nothing: every document other than the one resolved is as it was.
C34_ResolverReturnsLatestOwn ==
  [][IsCall =>
      LET own == OwnCandidates(subs, lastCall'.userId, lastCall'.name)
          found == lastCall'.existing
      IN /\ (own = {}) = (found = NoSub)
         /\ found # NoSub =>
              /\ found \in own
              /\ subs[found].userId = lastCall'.userId
              /\ \A j \in own : subs[j].updatedAt <= subs[found].updatedAt
         /\ \A j \in 1..Len(subs) : j # found => subs'[j] = subs[j]]_vars

\* the resolver had two candidates of the user and returned the one updated
\* later (the evidence was then discarded, so both are as the resolver saw
\* them)
C34_Witness ==
  /\ lastCall.n > 0
  /\ lastCall.existing # NoSub
  /\ lastCall.outcome = "discarded"
  /\ \E j \in OwnCandidates(subs, lastCall.userId, lastCall.name) :
       j # lastCall.existing /\ subs[j].updatedAt < subs[lastCall.existing].updatedAt

\* C35: a cancellation for which no subscription resolves creates exactly one
\* new Subscription, directly in status cancelled, with cancellationDate and
\* accessEndDate set (to the date of the evidence, or to the time of the call
\* when it has none); no active document is created and the others are kept.
C35_CancellationCreatesCancelled ==
  [][(IsCall /\ lastCall'.eventType = "cancellation" /\ lastCall'.existing = NoSub) =>
      /\ Len(subs') = Len(subs) + 1
      /\ SubSeq(subs', 1, Len(subs)) = subs
      /\ lastCall'.sid = Len(subs')
      /\ subs'[Len(subs')].userId = lastCall'.userId
      /\ subs'[Len(subs')].status = "cancelled"
      /\ subs'[Len(subs')].cancellationDate # NoDate
      /\ subs'[Len(subs')].cancellationDate =
           (IF lastCall'.cancellationDate # NoDate THEN lastCall'.cancellationDate ELSE now)
      /\ subs'[Len(subs')].accessEndDate = subs'[Len(subs')].cancellationDate]_vars

\* a cancellation without a date was the first evidence of its service and
\* left a cancelled subscription next to one of another service
C35_Witness ==
  /\ lastCall.eventType = "cancellation"
  /\ lastCall.existing = NoSub
  /\ lastCall.cancellationDate = NoDate
  /\ Len(subs) = 2
  /\ lastCall.sid = 2
  /\ subs[2].status = "cancelled"
  /\ subs[2].cancellationDate = now - 1
  /\ subs[1].status = "active"

\* the pass ran through the loop and returned its summary
PassDone == ft.pc = "done" /\ ft.result = "summary"

\* the ledger entries of the user of the pass for email id
PassEntries(id) == {l \in ledger : l.userId = ft.user /\ l.emailId = id}

\* C32: when a pass has run to completion, every fetched email that was not
\* in the ledger at the start of the pass has exactly one ledger entry, with
\* status processed, skipped or failed; a processed entry exists only for an
\* email whose evidence processSubscriptionData handled without throwing,
\* and it is linked to a subscription of the user.
C32_OneEntryPerFetchedEmail ==
  PassDone =>
    \A i \in 1..Len(ft.batch) :
      ft.batch[i] \notin ft.seen =>
        /\ Cardinality(PassEntries(ft.batch[i])) = 1
        /\ \A l \in PassEntries(ft.batch[i]) :
             /\ l.status \in {"processed", "skipped", "failed"}
             /\ l.status = "processed" =>
                  /\ ft.batch[i] \in ft.called
                  /\ l.subscriptionId \in 1..Len(subs)
                  /\ subs[l.subscriptionId].userId = ft.user

\* a pass ended with one email processed, one skipped and one failed, none of
\* them in the ledger before
C32_Witness ==
  /\ PassDone
  /\ Len(ft.batch) = 3
  /\ ft.seen = {}
  /\ \E i, j, k \in 1..3 :
       /\ \E l \in PassEntries(ft.batch[i]) : l.status = "processed"
       /\ \E l \in PassEntries(ft.batch[j]) : l.status = "skipped"
       /\ \E l \in PassEntries(ft.batch[k]) : l.status = "failed"

\* C33: the counters of a pass are conserved: every email of the batch the
\* loop has gone through incremented exactly one of processed, skipped and
\* alreadyProcessed, so that totalEmails = processed + skipped +
\* alreadyProcessed in the summary, and processed = created + updated +
\* cancelled.
C33_CountersConserved ==
  /\ ft.processed = ft.created + ft.updated + ft.cancelled
  /\ ft.pc = "loop" => ft.processed + ft.skipped + ft.alreadyProcessed = ft.idx - 1
  /\ PassDone => /\ ft.totalEmails = Len(ft.batch)
                 /\ ft.totalEmails = ft.processed + ft.skipped + ft.alreadyProcessed

\* a summary of three emails: one created, one cancelled, one skipped
C33_Witness ==
  /\ PassDone
  /\ ft.totalEmails = 3
  /\ ft.processed = 2 /\ ft.created = 1 /\ ft.cancelled = 1
  /\ ft.skipped = 1

\* a PassItem step on an email not in the ledger whose
\* processSubscriptionData call threw
ApplicationThrew ==
  /\ ft.pc = "loop" /\ ft'.idx = ft.idx + 1
  /\ ft.batch[ft.idx] \notin ft.seen
  /\ PassMail(ft.batch[ft.idx]).ev.eventType # ""
  /\ ft'.fault = "db"

\* C36: after an evidence item is applied (not discarded), the resulting
\* subscription carries the id and date of that evidence as its last applied
\* ones, and the ledger entry of the item is marked processed and linked to
\* that subscription; no entry is marked processed for an item whose
\* application threw.
C36_AppliedThenMarkedProcessed ==
  [][/\ PassApplied =>
          /\ subs'[lastCall'.sid].sourceEmailId = lastCall'.id
          /\ subs'[lastCall'.sid].sourceEmailDate = lastCall'.date
          /\ [userId |-> ft.user, emailId |-> lastCall'.id, status |-> "processed",
               subscriptionId |-> lastCall'.sid] \in ledger'
     /\ ApplicationThrew =>
          \A l \in ledger' : (l.userId = ft.user /\ l.emailId = ft.batch[ft.idx]) => l.status # "processed"]_vars

\* the PotentialSubscription documents of the transaction of the last sync step
SyncDocs(potStore) ==
  {i \in 1..Len(potStore) :
     potStore[i].userId = bank'.userId /\ potStore[i].transactionId = bank'.transactionId}

\* C37: when the email lookup inside analyzeTransaction fails, the sync step
\* completes with no email match; the transaction is classified from the
\* pattern detector alone, (confirmed, transaction_pattern) or (potential,
\* transaction_only), and a PotentialSubscription with that classification
\* is stored: created when the transaction had none, updated otherwise.
C37_LookupFailureAbsorbed ==
  [][(IsSync /\ bank'.lookupFailed) =>
      /\ ~bank'.matched
      /\ bank'.confidence = (IF bank'.detected THEN "confirmed" ELSE "potential")
      /\ bank'.reason = (IF bank'.detected THEN "transaction_pattern" ELSE "transaction_only")
      /\ Len(pots') = (IF SyncDocs(pots) = {} THEN Len(pots) + 1 ELSE Len(pots))
      /\ SyncDocs(pots') # {}
      /\ SyncDocs(pots) \subseteq SyncDocs(pots')
      /\ \E i \in SyncDocs(pots') :
           /\ pots'[i].confidence = bank'.confidence
           /\ pots'[i].reason = bank'.reason
           /\ pots'[i].recurringPattern.detected = bank'.detected]_vars

\* two syncs with a failed email lookup: one stored the transaction as
\* potential, a later one confirmed a transaction from its pattern
C37_Witness ==
  /\ bank.kind = "sync"
  /\ bank.lookupFailed
  /\ bank.detected
  /\ bank.confidence = "confirmed" /\ bank.reason = "transaction_pattern"
  /\ \E i \in 1..Len(pots) :
       /\ pots[i].userId = bank.userId
       /\ pots[i].confidence = "potential" /\ pots[i].reason = "transaction_only"
       /\ pots[i].matchedEmailId = 0

====
